---- MODULE Spec2Model ----
(***************************************************************************)
(* Model of the quickwit actor runtime (quickwit-actors): one actor of a   *)
(* kill-switch group, its mailbox, its heartbeat watchdog and the          *)
(* observation path of its handle.  The other members of the group are     *)
(* represented by the kill() calls they can issue on the shared counter.   *)
(* The clock of the runtime, the scheduler's unique queue                    *)
(* (quickwit-indexing) and the metastore with the index operations of       *)
(* quickwit-core are components of their own, each with its own             *)
(* specification.                                                           *)
(***************************************************************************)
EXTENDS Integers, Sequences, FiniteSets, TLC

\* ------------------------------------------------------------------ bounds
\* Highest step id a KillSwitch handle is given (default() then add_step()).
MaxStep == 2
\* Number of user messages sent on the mailbox.
MaxSend == 2
\* Number of observe() calls issued on the handle.
MaxObserve == 1
\* message_queue_limit passed to spawn().
QueueLimit == 2
\* Number of distinct items (source ids) sent on the unique queue.
MaxItem == 3
\* Number of sends the unique queue accepts (does not collapse).
MaxAccepted == 4
\* Number of Sender clones of the unique queue alive at a time.
MaxSenders == 2
\* Number of split ids of the index.
MaxSplit == 2
\* Number of files a campaign uploads for a split.
MaxFiles == 1
\* Number of leaf nodes a root search is sent to, one split each.
MaxLeaves == 2
\* Number of documents of a split that match the query.
MaxMatches == 1
\* Highest sorting_field_value of a document.
MaxValue == 2
\* Length in bytes of a file of the underlying directory.
MaxBytes == 2
\* Number of reads through the caching directory.
MaxReads == 3
\* Number of ticks of the watchdog of an actor.
MaxTicks == 3
\* Number of record_progress calls counted between two ticks.
MaxRecorded == 2

\* --------------------------------------------------------------- variables
VARIABLES
    flavour,            \* "async" (AsyncActor) or "sync" (SyncActor)
    step_id,            \* KillSwitch.step_id of the actor's kill switch
    lowest_step_alive,  \* KillSwitch.lowest_step_alive, shared by the group
    progress,           \* Progress: the AtomicBool
    inbox,              \* the flume channel of the mailbox
    connected,          \* some Mailbox / ActorHandle (a sender) still exists
    pc,                 \* position of the actor loop
    cur,                \* the result of the receive the loop is holding
    processed,          \* ids of the messages handed to process_message
    last_state,         \* the watch register (state_tx / last_state)
    termination,        \* the ActorTermination returned, "none" while running
    finalized,          \* number of calls of SyncActor::finalize
    aborted,            \* join_handle.abort() has been called
    wd,                 \* position of the watchdog task of ActorHandle::new
    obs,                \* the observe() call in flight, and its result
    sent,               \* number of user messages whose send returned Ok
    send_result,        \* result of the last send on the mailbox
    hist_max_kill,      \* history: highest step id kill() was called on, -1 if none
    late_kill,          \* history: some kill() found the counter already above its step + 1
    queued_at_drop      \* history: user messages queued when the senders were dropped

\* The unique queue of the scheduler (unique_queue.rs): a record of
\*   items_in_queue  the HashSet shared by the Sender clones and the Receiver
\*   channel         the tokio unbounded channel (tx, rx)
\*   num_senders     number of Sender clones alive
\*   receiver        position of the Receiver, and the item it holds
\*   last_send       the last send call: its item, its result, whether it collapsed
\*   accepted        history: items of the sends that were enqueued, in order
\*   delivered       history: items recv returned, in order
VARIABLES queue

\* The metastore, the storage and the operations on an index (metastore.rs,
\* quickwit-core index.rs, the uploader and the publisher of a campaign): a
\* record of
\*   row             MetadataSet.index: the index exists in the metastore
\*   splits          MetadataSet.splits: the state of each split, "Absent" if no row
\*   storage         number of files under <index URI>/<split id>
\*   campaign        position of the indexing campaign, and its split
\*   op              the delete_index or garbage_collect_index call in flight
\*   last_call       the last call of a client on the Metastore, and the rows before it
VARIABLES index

\* The clock (clock.rs), its controller, its ticker task and the mailbox the
\* Ticks go to: a record of
\*   state           the State behind the Arc<RwLock<..>>
\*   controller      the ClockController has not been dropped
\*   ticker          position of the ticker task, and its state_snapshot
\*   tick_inbox      number of Ticks queued in the mailbox
\*   tick_receiver   the receiver of the mailbox has not been dropped
\*   last_command    history: the last command run, and the state it found
\*   after_drop      history: the ticker's period began after the drop of the controller
VARIABLES clk

\* A root_search call (root.rs): a record of
\*   request         the SearchRequest of the client
\*   matches         what each leaf node holds: the sorting values of its matches
\*   pc              position of the call
\*   leaf_request    search_request_with_offset_0
\*   responses       result_per_node_addr
\*   merged          the LeafSearchResult of merge_fruits
\*   fetched         the leaf nodes whose fetch_docs request succeeded
\*   result          what the call returned
VARIABLES root

\* An analyze_errors call (root.rs): its argument and its result.
VARIABLES analysis

\* A leaf_search call (leaf.rs): a record of
\*   tasks           position and history of leaf_search_single_split, split by split
\*   pc              position of the call
\*   result          what the call returned
VARIABLES leaf

\* A CachingDirectory over an underlying directory (caching_directory.rs):
\* a record of
\*   capacity        capacity_in_bytes of the SliceCache, or unlimited
\*   slices          the SliceCache: (path, byte_range) entries, least recently used first
\*   put_bytes       history: number of bytes ever given to the SliceCache
\*   underlying_reads  number of reads the underlying directory served
\*   reads           number of reads through the caching directory
\*   last_read       the last read: its path, its range, its result
\*   first_reads     history: the first successful read of each (path, range)
VARIABLES cache

\* The Indexer actor of a campaign (indexer.rs, sync_actor.rs): a record of
\*   pc              position of sync_actor_loop
\*   msg             what recv_timeout returned
\*   checkpoint      Indexer.checkpoint: partition id to position
\*   alive           kill_switch.is_alive()
\*   packager_inbox  the IndexedSplits sent to the packager
\*   termination     the ActorTermination the loop returned
\*   processed       history: the checkpoint_update of the batches processed, in order
VARIABLES indexer

\* The Progress of an actor and the watchdog task of its handle (actor.rs,
\* actor_handle.rs): a record of
\*   progress        the AtomicBool of Progress
\*   wd              position of the watchdog task
\*   alive           kill_switch.is_alive()
\*   killed_by       who called kill(): "none", "watchdog" or "other"
\*   ticks           number of has_changed() checks of the watchdog
\*   recorded        history: record_progress calls since the last has_changed() check
VARIABLES beat

\* The actors run_campaign spawns and the source feeding them (campaign.rs):
\* a record of
\*   box                for each role, the number of messages queued in its mailbox
\*   pc                 for each role, the position of its actor loop
\*   result             for each role, the result of its last send downstream
\*   src                position of the source
\*   src_result         the result of the last send of the source
\*   lowest_step_alive  the atomic shared by the clones of the campaign kill switch
\*   step_id            the step of the campaign kill switch
VARIABLES pipeline

actor_vars == <<flavour, step_id, lowest_step_alive, progress, inbox, connected, pc, cur,
                processed, last_state, termination, finalized, aborted, wd, obs, sent,
                send_result, hist_max_kill, late_kill, queued_at_drop>>

queue_vars == <<queue>>

index_vars == <<index>>

clock_vars == <<clk>>

search_vars == <<root, analysis, leaf>>

cache_vars == <<cache>>

indexer_vars == <<indexer>>

beat_vars == <<beat>>

pipeline_vars == <<pipeline>>

\* The components added to the runtime, the queue, the index and the clock.
other_vars == <<search_vars, cache_vars, indexer_vars, beat_vars, pipeline_vars>>

\* The components an actor of the runtime does not touch.
outside_actor == <<queue_vars, index_vars, clock_vars, other_vars>>

\* The components the unique queue does not touch.
outside_queue == <<actor_vars, index_vars, clock_vars, other_vars>>

\* The components the metastore and the index operations do not touch.
outside_index == <<actor_vars, queue_vars, clock_vars, other_vars>>

\* The components the clock does not touch.
outside_clock == <<actor_vars, queue_vars, index_vars, other_vars>>

\* The components a root_search call does not touch.
outside_root ==
    <<actor_vars, queue_vars, index_vars, clock_vars, analysis, leaf, cache_vars, indexer_vars,
      beat_vars, pipeline_vars>>

\* The components an analyze_errors call does not touch.
outside_analysis ==
    <<actor_vars, queue_vars, index_vars, clock_vars, root, leaf, cache_vars, indexer_vars,
      beat_vars, pipeline_vars>>

\* The components a leaf_search call does not touch.
outside_leaf ==
    <<actor_vars, queue_vars, index_vars, clock_vars, root, analysis, cache_vars, indexer_vars,
      beat_vars, pipeline_vars>>

\* The components the caching directory does not touch.
outside_cache ==
    <<actor_vars, queue_vars, index_vars, clock_vars, search_vars, indexer_vars, beat_vars, pipeline_vars>>

\* The components the indexer does not touch.
outside_indexer ==
    <<actor_vars, queue_vars, index_vars, clock_vars, search_vars, cache_vars, beat_vars, pipeline_vars>>

\* The components the watchdog of an actor does not touch.
outside_beat ==
    <<actor_vars, queue_vars, index_vars, clock_vars, search_vars, cache_vars, indexer_vars,
      pipeline_vars>>

\* The components the actors of a campaign do not touch.
outside_pipeline ==
    <<actor_vars, queue_vars, index_vars, clock_vars, search_vars, cache_vars, indexer_vars,
      beat_vars>>

vars == <<actor_vars, outside_actor>>

\* ------------------------------------------------------------- kill switch
\* AtomicUsize::fetch_max
fetch_max(old, val) == IF val > old THEN val ELSE old

\* KillSwitch::default(): step_id 0 (the shared counter starts at 0, see Init)
KillSwitchDefault == [step_id |-> 0]

\* KillSwitch::add_step
add_step(ks) == [step_id |-> ks.step_id + 1]

\* The handles obtained from default() by at most n calls of add_step().
RECURSIVE KillSwitchHandles(_)
KillSwitchHandles(n) ==
    IF n = 0 THEN {KillSwitchDefault}
    ELSE LET prev == KillSwitchHandles(n - 1)
         IN  prev \cup {add_step(ks) : ks \in prev}

\* (mutant) kill() lowers the counter (fetch_min)
kill_min(floor, step) == IF step + 1 < floor THEN step + 1 ELSE floor

\* (mutant) kill() stores its step without comparing
kill_store(floor, step) == step + 1

\* KillSwitch::kill: the new value of the shared counter
kill(floor, step) == fetch_max(floor, step + 1)

\* An is_alive() that never sees the switch tripped (mutant).
is_alive_always(floor, step) == TRUE

\* KillSwitch::is_alive
is_alive(floor, step) == floor < step

IsAlive == is_alive(lowest_step_alive, step_id)

Max(a, b) == IF a > b THEN a ELSE b

\* kill() called on a handle of step id k
KillBy(k) ==
    /\ lowest_step_alive' = kill(lowest_step_alive, k)
    /\ hist_max_kill' = Max(hist_max_kill, k)
    /\ late_kill' = (late_kill \/ k + 1 < lowest_step_alive)

NoKill == UNCHANGED <<lowest_step_alive, hist_max_kill, late_kill>>

\* ---------------------------------------------------------------- messages
\* MessageProcessError, plus Ok(()) and a process_message that never returns.
ProcessResults == {"Ok", "OnDemand", "DownstreamClosed", "Error", "Block"}

\* ActorMessage::Message; res is filled in when process_message is called
UserMessage(id) == [kind |-> "Message", id |-> id, res |-> "Ok"]
\* ActorMessage::Observe
ObserveMessage(id) == [kind |-> "Observe", id |-> id, res |-> "Ok"]
NoMsg == [kind |-> "None", id |-> 0, res |-> "Ok"]
\* the receive timed out
RecvTimeout == [kind |-> "Timeout", id |-> 0, res |-> "Ok"]
\* the receive found the channel empty with every sender dropped
RecvDisconnected == [kind |-> "Disconnected", id |-> 0, res |-> "Ok"]

\* Actor::observable_state (the ping counter of the test actors)
observable_state == Len(processed)

\* The receiver of the channel is dropped when the loop function returns.
ReceiverDropped == pc \in {"exiting", "done"}

\* (mutant) the channel hands out the newest message first
DequeueNewest(q) == [msg |-> q[Len(q)], rest |-> SubSeq(q, 1, Len(q) - 1)]

\* flume::Receiver::recv: the message delivered and what stays queued
Dequeue(q) == [msg |-> Head(q), rest |-> Tail(q)]

\* (mutant) the receive reports the disconnection before the queue is drained
RecvOutcomeNoDrain(q, senders) ==
    IF ~senders THEN "Disconnected"
    ELSE IF q # <<>> THEN "Message" ELSE "Timeout"

\* What the timed receive returns: a queued message if there is one, also when
\* every sender is gone; Disconnected only on an empty channel without sender.
RecvOutcome(q, senders) ==
    IF q # <<>> THEN "Message"
    ELSE IF senders THEN "Timeout" ELSE "Disconnected"

\* (mutant) every failure of process_message trips the kill switch
TripsKillSwitchAlways(res) == res # "Ok"

\* Which results of process_message trip the kill switch
TripsKillSwitch(res) == res \in {"Error", "DownstreamClosed"}

\* The ActorTermination a failed process_message ends the loop with
TerminationOf(res) ==
    CASE res = "OnDemand" -> "OnDemand"
      [] res = "Error" -> "ActorError"
      [] res = "DownstreamClosed" -> "DownstreamClosed"

\* Whether finalize() is called on disconnection (SyncActor only)
CallsFinalize(fl) == fl = "sync"

\* Whether the final state is published once the loop has returned
PublishesOnExit(fl) == fl = "sync"

\* The loop returns `cause`: the async task is over; the sync closure still
\* publishes the final state.
Terminate(cause) ==
    /\ termination' = cause
    /\ pc' = IF PublishesOnExit(flavour) THEN "exiting" ELSE "done"

\* -------------------------------------------------------------------- Init
IdleObs == [pc |-> "idle", id |-> 0, reply |-> "none", sent_before |-> 0,
            alive_at_call |-> FALSE,
            kind |-> "none", state |-> 0]

ActorInit ==
    /\ flavour \in {"async", "sync"}
    /\ step_id \in {ks.step_id : ks \in KillSwitchHandles(MaxStep)}
    /\ lowest_step_alive = 0
    /\ progress = FALSE
    /\ inbox = <<>>
    /\ connected = TRUE
    /\ pc = "top"
    /\ cur = NoMsg
    /\ processed = <<>>
    /\ last_state = 0
    /\ termination = "none"
    /\ finalized = 0
    /\ aborted = FALSE
    /\ wd = "loop"
    /\ obs = IdleObs
    /\ sent = 0
    /\ send_result = "none"
    /\ hist_max_kill = -1
    /\ late_kill = FALSE
    /\ queued_at_drop = -1

\* -------------------------------------------------------------- actor loop
\* Top of the loop: kill-switch check, then record_progress.
ActorTop ==
    /\ pc = "top"
    /\ IF IsAlive
       THEN /\ progress' = TRUE
            /\ pc' = "recv"
            /\ UNCHANGED termination
       ELSE /\ Terminate("KillSwitch")
            /\ UNCHANGED progress
    /\ NoKill
    /\ UNCHANGED <<outside_actor, flavour, step_id, inbox, connected, cur, processed, last_state,
                   finalized, aborted, wd, obs, sent, send_result, queued_at_drop>>

\* The timed receive returns (a message, a timeout or a disconnection), then
\* record_progress.
ActorRecv ==
    /\ pc = "recv"
    /\ \/ /\ RecvOutcome(inbox, connected) = "Message"
          /\ cur' = Dequeue(inbox).msg
          /\ inbox' = Dequeue(inbox).rest
       \/ /\ RecvOutcome(inbox, connected) = "Timeout"
          /\ cur' = RecvTimeout
          /\ UNCHANGED inbox
       \/ /\ RecvOutcome(inbox, connected) = "Disconnected"
          /\ cur' = RecvDisconnected
          /\ UNCHANGED inbox
    /\ progress' = TRUE
    /\ pc' = "check"
    /\ NoKill
    /\ UNCHANGED <<outside_actor, flavour, step_id, connected, processed, last_state, termination,
                   finalized, aborted, wd, obs, sent, send_result, queued_at_drop>>

\* The reply channel of the observe() call in flight is this marker's.
IsCurrentMarker(m) == m.kind = "Observe" /\ m.id = obs.id /\ obs.pc = "waiting"

\* Second kill-switch check, then the dispatch on what was received.
ActorDispatch ==
    /\ pc = "check"
    /\ IF ~IsAlive
       THEN /\ Terminate("KillSwitch")
            /\ cur' = NoMsg
            /\ obs' = IF IsCurrentMarker(cur) THEN [obs EXCEPT !.reply = "closed"] ELSE obs
            /\ UNCHANGED <<processed, last_state>>
       ELSE CASE cur.kind = "Message" ->
                   \* process_message is called; res is what it will give
                   /\ \E res \in ProcessResults :
                        /\ cur' = [cur EXCEPT !.res = res]
                        /\ pc' = IF res = "Block" THEN "blocked" ELSE "processing"
                   /\ processed' = Append(processed, cur.id)
                   /\ UNCHANGED <<last_state, termination, obs>>
              [] cur.kind = "Observe" ->
                   /\ last_state' = observable_state
                   /\ obs' = IF IsCurrentMarker(cur) THEN [obs EXCEPT !.reply = "ack"] ELSE obs
                   /\ pc' = "top"
                   /\ cur' = NoMsg
                   /\ UNCHANGED <<processed, termination>>
              [] cur.kind = "Timeout" ->
                   /\ pc' = "top"
                   /\ cur' = NoMsg
                   /\ UNCHANGED <<processed, last_state, termination, obs>>
              [] cur.kind = "Disconnected" ->
                   /\ IF CallsFinalize(flavour)
                      THEN pc' = "finalize" /\ UNCHANGED termination
                      ELSE Terminate("Disconnect")
                   /\ cur' = NoMsg
                   /\ UNCHANGED <<processed, last_state, obs>>
    /\ NoKill
    /\ UNCHANGED <<outside_actor, flavour, step_id, progress, inbox, connected, finalized, aborted, wd,
                   sent, send_result, queued_at_drop>>

\* process_message calls progress.record_progress() while it works.
ActorRecordProgress ==
    /\ pc = "processing"
    /\ ~progress
    /\ progress' = TRUE
    /\ NoKill
    /\ UNCHANGED <<outside_actor, flavour, step_id, inbox, connected, pc, cur, processed, last_state,
                   termination, finalized, aborted, wd, obs, sent, send_result,
                   queued_at_drop>>

\* process_message returns.
ActorProcessReturn ==
    /\ pc = "processing"
    /\ cur' = NoMsg
    /\ IF cur.res = "Ok"
       THEN /\ pc' = "top"
            /\ UNCHANGED termination
            /\ NoKill
       ELSE /\ IF TripsKillSwitch(cur.res) THEN KillBy(step_id) ELSE NoKill
            /\ Terminate(TerminationOf(cur.res))
    /\ UNCHANGED <<outside_actor, flavour, step_id, progress, inbox, connected, processed, last_state,
                   finalized, aborted, wd, obs, sent, send_result, queued_at_drop>>

\* SyncActor::finalize, called on disconnection; it may fail.
ActorFinalize ==
    /\ pc = "finalize"
    /\ finalized' = finalized + 1
    /\ \E ok \in BOOLEAN : Terminate(IF ok THEN "Disconnect" ELSE "ActorError")
    /\ NoKill
    /\ UNCHANGED <<outside_actor, flavour, step_id, progress, inbox, connected, cur, processed,
                   last_state, aborted, wd, obs, sent, send_result, queued_at_drop>>

\* The closure of SyncActor::spawn publishes the state after the loop returned.
SyncPublishFinal ==
    /\ pc = "exiting"
    /\ last_state' = observable_state
    /\ pc' = "done"
    /\ NoKill
    /\ UNCHANGED <<outside_actor, flavour, step_id, progress, inbox, connected, cur, processed,
                   termination, finalized, aborted, wd, obs, sent, send_result,
                   queued_at_drop>>

\* An aborted tokio task is cancelled at an await point; abort() has no effect
\* on a spawn_blocking task that is running.
AbortEffect ==
    /\ aborted
    /\ flavour = "async"
    /\ pc \in {"recv", "processing", "blocked"}
    /\ pc' = "done"
    /\ termination' = "Cancelled"
    /\ cur' = NoMsg
    /\ NoKill
    /\ UNCHANGED <<outside_actor, flavour, step_id, progress, inbox, connected, processed, last_state,
                   finalized, aborted, wd, obs, sent, send_result, queued_at_drop>>

\* ---------------------------------------------------------------- watchdog
\* `while kill_switch.is_alive()`
WatchdogLoop ==
    /\ wd = "loop"
    /\ wd' = IF IsAlive THEN "tick" ELSE "done"
    /\ NoKill
    /\ UNCHANGED <<outside_actor, flavour, step_id, progress, inbox, connected, pc, cur, processed,
                   last_state, termination, finalized, aborted, obs, sent, send_result,
                   queued_at_drop>>

\* interval.tick() elapsed: `if !progress.has_changed() { kill_switch.kill(); return; }`
WatchdogTick ==
    /\ wd = "tick"
    /\ IF ~progress
       THEN /\ KillBy(step_id)
            /\ wd' = "done"
       ELSE /\ NoKill
            /\ wd' = "reset"
    /\ UNCHANGED <<outside_actor, flavour, step_id, progress, inbox, connected, pc, cur, processed,
                   last_state, termination, finalized, aborted, obs, sent, send_result,
                   queued_at_drop>>

\* progress.reset()
WatchdogReset ==
    /\ wd = "reset"
    /\ progress' = FALSE
    /\ wd' = "loop"
    /\ NoKill
    /\ UNCHANGED <<outside_actor, flavour, step_id, inbox, connected, pc, cur, processed, last_state,
                   termination, finalized, aborted, obs, sent, send_result,
                   queued_at_drop>>

Watchdog == WatchdogLoop \/ WatchdogTick \/ WatchdogReset

\* ------------------------------------------------------ the rest of the group
\* kill() called on another handle of the group (another actor, its watchdog,
\* or the owner of the switch), of step id k.
Kill(k) ==
    /\ KillBy(k)
    /\ UNCHANGED <<outside_actor, flavour, step_id, progress, inbox, connected, pc, cur, processed,
                   last_state, termination, finalized, aborted, wd, obs, sent,
                   send_result, queued_at_drop>>

\* ------------------------------------------------------------------ mailbox
\* Mailbox::send_async / send_blocking of a user message. A send on a full
\* channel waits; a send on a channel whose receiver is gone returns SendError.
Send ==
    /\ connected
    /\ sent < MaxSend
    /\ IF ReceiverDropped
       THEN /\ send_result' = "SendError"
            /\ UNCHANGED <<inbox, sent>>
       ELSE /\ Len(inbox) < QueueLimit
            /\ inbox' = Append(inbox, UserMessage(sent + 1))
            /\ sent' = sent + 1
            /\ send_result' = "Ok"
    /\ NoKill
    /\ UNCHANGED <<outside_actor, flavour, step_id, progress, connected, pc, cur, processed, last_state,
                   termination, finalized, aborted, wd, obs, queued_at_drop>>

\* Mailbox::send_async / send_blocking to an actor that is blocked in
\* process_message: it dequeues nothing, so the sends that complete are
\* those the channel has room for.
SendWhileBlocked ==
    /\ connected
    /\ pc = "blocked"
    /\ Len(inbox) < QueueLimit
    /\ inbox' = Append(inbox, UserMessage(sent + 1))
    /\ sent' = sent + 1
    /\ send_result' = "Ok"
    /\ NoKill
    /\ UNCHANGED <<outside_actor, flavour, step_id, progress, connected, pc, cur, processed, last_state,
                   termination, finalized, aborted, wd, obs, queued_at_drop>>

UserMessages(q) == SelectSeq(q, LAMBDA m : m.kind = "Message")

\* Every Mailbox and ActorHandle is dropped: the channel has no sender left.
DropMailboxes ==
    /\ connected
    /\ obs.pc \in {"idle", "returned"}
    /\ connected' = FALSE
    /\ queued_at_drop' = Len(UserMessages(inbox))
    /\ NoKill
    /\ UNCHANGED <<outside_actor, flavour, step_id, progress, inbox, pc, cur, processed, last_state,
                   termination, finalized, aborted, wd, obs, sent, send_result>>

\* ------------------------------------------------------------------ observe
\* ActorHandle::observe is called: the oneshot channel is created.
ObserveCall ==
    /\ connected
    /\ obs.pc \in {"idle", "returned"}
    /\ obs.id < MaxObserve
    /\ obs' = [pc |-> "sending", id |-> obs.id + 1, reply |-> "none",
               sent_before |-> sent, alive_at_call |-> IsAlive,
               kind |-> "none", state |-> 0]
    /\ NoKill
    /\ UNCHANGED <<outside_actor, flavour, step_id, progress, inbox, connected, pc, cur, processed,
                   last_state, termination, finalized, aborted, wd, sent, send_result,
                   queued_at_drop>>

\* send_actor_message(ActorMessage::Observe(tx)): the marker is queued, or the
\* send fails and the marker (with tx) is dropped.
ObserveSend ==
    /\ obs.pc = "sending"
    /\ IF ReceiverDropped
       THEN /\ obs' = [obs EXCEPT !.pc = "waiting", !.reply = "closed"]
            /\ UNCHANGED inbox
       ELSE /\ Len(inbox) < QueueLimit
            /\ inbox' = Append(inbox, ObserveMessage(obs.id))
            /\ obs' = [obs EXCEPT !.pc = "waiting"]
    /\ NoKill
    /\ UNCHANGED <<outside_actor, flavour, step_id, progress, connected, pc, cur, processed, last_state,
                   termination, finalized, aborted, wd, sent, send_result,
                   queued_at_drop>>

\* A marker left in the channel of an actor that is gone: its tx is dropped
\* with the channel.
DropAbandonedMarker ==
    /\ ReceiverDropped
    /\ obs.pc = "waiting"
    /\ obs.reply = "none"
    /\ \E i \in 1..Len(inbox) : inbox[i] = ObserveMessage(obs.id)
    /\ obs' = [obs EXCEPT !.reply = "closed"]
    /\ NoKill
    /\ UNCHANGED <<outside_actor, flavour, step_id, progress, inbox, connected, pc, cur, processed,
                   last_state, termination, finalized, aborted, wd, sent, send_result,
                   queued_at_drop>>

\* (mutant) a timeout is reported as Terminated without looking at the switch
ObservationKindNoCheck(reply, alive) ==
    CASE reply = "ack" -> "Running"
      [] reply = "closed" -> "Terminated"
      [] reply = "none" -> "Terminated"

\* The Observation returned for what `timeout(HEARTBEAT, rx)` gave.
\* reply: "ack" = Ok(Ok(())), "closed" = Ok(Err(_)), "none" = Err(_) (timeout)
ObservationKind(reply, alive) ==
    CASE reply = "ack" -> "Running"
      [] reply = "closed" -> "Terminated"
      [] reply = "none" -> IF alive THEN "Timeout" ELSE "Terminated"

\* Whether observe() aborts the task
ObserveAborts(reply, alive) == reply = "none" /\ ~alive

\* The wait of observe() ends, by the reply or by the timeout.
ObserveReturn ==
    /\ obs.pc = "waiting"
    /\ obs' = [obs EXCEPT !.pc = "returned", !.reply = "none",
                          !.sent_before = 0, !.alive_at_call = FALSE,
                          !.kind = ObservationKind(obs.reply, IsAlive),
                          !.state = last_state]
    /\ aborted' = (aborted \/ ObserveAborts(obs.reply, IsAlive))
    /\ NoKill
    /\ UNCHANGED <<outside_actor, flavour, step_id, progress, inbox, connected, pc, cur, processed,
                   last_state, termination, finalized, wd, sent, send_result,
                   queued_at_drop>>

\* ------------------------------------------------------------ unique queue
\* The items sent on the queue; SourceIndexingConfig compares by source_id.
Items == 1..MaxItem

\* A send that never looks at the set (mutant).
contains_never(set, item) == FALSE

\* `lock.contains(&item)`
contains(set, item) == item \in set

\* A channel that hands out the newest item first (mutant).
tx_send_front(q, item) == <<item>> \o q

\* `self.tx.send(item)` on the unbounded channel
tx_send(q, item) == Append(q, item)

ReceiverIdle == [pc |-> "idle", item |-> 0]

\* unbounded_channel(): an empty channel, an empty set, one Sender, one Receiver.
unbounded_channel ==
    queue = [items_in_queue |-> {},
             channel |-> <<>>,
             num_senders |-> 1,
             receiver |-> ReceiverIdle,
             last_send |-> [item |-> 0, res |-> "none", collapsed |-> FALSE],
             accepted |-> <<>>,
             delivered |-> <<>>]

\* Sender::send(item). The guard of the Mutex is held from the first line to
\* the return and nothing is awaited in between, so the body is one step.
SenderSend(item) ==
    /\ queue.num_senders > 0
    /\ IF contains(queue.items_in_queue, item)
       THEN queue' = [queue EXCEPT
                        !.last_send = [item |-> item, res |-> "Ok", collapsed |-> TRUE]]
       ELSE IF queue.receiver.pc # "dropped"
       THEN /\ Len(queue.accepted) < MaxAccepted
            /\ queue' = [queue EXCEPT
                           !.items_in_queue = @ \cup {item},
                           !.channel = tx_send(@, item),
                           !.accepted = Append(@, item),
                           !.last_send = [item |-> item, res |-> "Ok", collapsed |-> FALSE]]
       ELSE queue' = [queue EXCEPT
                        !.items_in_queue = @ \cup {item},
                        !.last_send = [item |-> item, res |-> "Err", collapsed |-> FALSE]]
    /\ UNCHANGED outside_queue

\* Sender::clone (derived)
SenderClone ==
    /\ queue.num_senders > 0
    /\ queue.num_senders < MaxSenders
    /\ queue' = [queue EXCEPT !.num_senders = @ + 1]
    /\ UNCHANGED outside_queue

\* A Sender is dropped; the channel closes with the last one.
SenderDrop ==
    /\ queue.num_senders > 0
    /\ queue' = [queue EXCEPT !.num_senders = @ - 1]
    /\ UNCHANGED outside_queue

\* Receiver::recv, `self.rx.recv().await?`: the next item of the channel, or
\* None once the channel is empty and every Sender is gone.
ReceiverRecv ==
    /\ queue.receiver.pc = "idle"
    /\ \/ /\ queue.channel # <<>>
          /\ queue' = [queue EXCEPT
                         !.receiver = [pc |-> "holding", item |-> Head(queue.channel)],
                         !.channel = Tail(@)]
       \/ /\ queue.channel = <<>>
          /\ queue.num_senders = 0
          /\ queue' = [queue EXCEPT !.receiver = [pc |-> "closed", item |-> 0]]
    /\ UNCHANGED outside_queue

\* Receiver::recv, under the lock: `assert!(lock.remove(&item)); Some(item)`
ReceiverRemove ==
    /\ queue.receiver.pc = "holding"
    /\ queue' = IF queue.receiver.item \in queue.items_in_queue
                THEN [queue EXCEPT
                        !.items_in_queue = @ \ {queue.receiver.item},
                        !.delivered = Append(@, queue.receiver.item),
                        !.receiver = ReceiverIdle]
                ELSE [queue EXCEPT !.receiver.pc = "panicked"]
    /\ UNCHANGED outside_queue

\* The Receiver is dropped between two calls of recv: the channel closes and
\* what it holds is dropped with it; the set is left as it is.
ReceiverDrop ==
    /\ queue.receiver.pc \in {"idle", "closed"}
    /\ queue' = [queue EXCEPT
                   !.receiver = [pc |-> "dropped", item |-> 0],
                   !.channel = <<>>]
    /\ UNCHANGED outside_queue

QueueNext ==
    \/ \E item \in Items : SenderSend(item)
    \/ SenderClone
    \/ SenderDrop
    \/ ReceiverRecv
    \/ ReceiverRemove
    \/ ReceiverDrop

\* ---------------------------------------------------------------- metastore
SplitIds == 1..MaxSplit

\* SplitState, and "Absent" for a split id without a row. (New is the state of
\* a SplitMetadata that was not staged yet: no row has it.)
SplitStates == {"Staged", "Published", "ScheduledForDeletion"}

NoRows == [id \in SplitIds |-> "Absent"]

\* The result of a call on the Metastore: Ok or a MetastoreError, and the rows
\* after it (all mutations are under the write lock: pre- or post-state).
Return(ok, rows) == [ok |-> ok, rows |-> rows]

\* Metastore::stage_split: fails if the index is missing or the split exists.
stage_split(exists, rows, id) ==
    IF exists /\ rows[id] = "Absent"
    THEN Return(TRUE, [rows EXCEPT ![id] = "Staged"])
    ELSE Return(FALSE, rows)

\* A publish_splits that does not look at the state of the splits (mutant).
publish_splits_any(exists, rows, ids) ==
    Return(exists, [id \in SplitIds |-> IF id \in ids THEN "Published" ELSE rows[id]])

\* Metastore::publish_splits: every id Staged or Published; Staged -> Published.
publish_splits(exists, rows, ids) ==
    IF exists /\ \A id \in ids : rows[id] \in {"Staged", "Published"}
    THEN Return(TRUE, [id \in SplitIds |-> IF id \in ids THEN "Published" ELSE rows[id]])
    ELSE Return(FALSE, rows)

\* Metastore::list_splits without a time range: the splits in the given state.
list_splits(rows, state) == {id \in SplitIds : rows[id] = state}

\* Metastore::list_all_splits
list_all_splits(rows) == {id \in SplitIds : rows[id] # "Absent"}

\* Metastore::mark_splits_as_deleted: every id has a row; any state ->
\* ScheduledForDeletion.
mark_splits_as_deleted(exists, rows, ids) ==
    IF exists /\ \A id \in ids : rows[id] # "Absent"
    THEN Return(TRUE, [id \in SplitIds |->
                         IF id \in ids THEN "ScheduledForDeletion" ELSE rows[id]])
    ELSE Return(FALSE, rows)

\* A delete_splits that removes the rows it may remove before it fails on
\* the others (mutant).
delete_splits_partial(exists, rows, ids) ==
    Return(exists /\ \A id \in ids : rows[id] \in {"Staged", "ScheduledForDeletion"},
           [id \in SplitIds |->
              IF exists /\ id \in ids /\ rows[id] \in {"Staged", "ScheduledForDeletion"}
              THEN "Absent" ELSE rows[id]])

\* Metastore::delete_splits: every id Staged or ScheduledForDeletion; removes
\* the rows.
delete_splits(exists, rows, ids) ==
    IF exists /\ \A id \in ids : rows[id] \in {"Staged", "ScheduledForDeletion"}
    THEN Return(TRUE, [id \in SplitIds |-> IF id \in ids THEN "Absent" ELSE rows[id]])
    ELSE Return(FALSE, rows)

\* The calls a client makes with a list of split ids.
SplitCalls == {"publish_splits", "mark_splits_as_deleted", "delete_splits"}

CallResult(name, exists, rows, ids) ==
    CASE name = "publish_splits" -> publish_splits(exists, rows, ids)
      [] name = "mark_splits_as_deleted" -> mark_splits_as_deleted(exists, rows, ids)
      [] name = "delete_splits" -> delete_splits(exists, rows, ids)

NoCall == [name |-> "none", ids |-> {}, ok |-> TRUE, before |-> NoRows]

\* A client calls publish_splits, mark_splits_as_deleted or delete_splits.
MetastoreCall(name, ids) ==
    /\ index' = [index EXCEPT
                   !.splits = CallResult(name, index.row, index.splits, ids).rows,
                   !.last_call = [name |-> name, ids |-> ids,
                                  ok |-> CallResult(name, index.row, index.splits, ids).ok,
                                  before |-> index.splits]]
    /\ UNCHANGED outside_index

\* A client calls stage_split.
MetastoreStage(id) ==
    /\ index' = [index EXCEPT
                   !.splits = stage_split(index.row, index.splits, id).rows,
                   !.last_call = [name |-> "stage_split", ids |-> {id},
                                  ok |-> stage_split(index.row, index.splits, id).ok,
                                  before |-> index.splits]]
    /\ UNCHANGED outside_index

MetastoreNext ==
    \/ \E name \in SplitCalls, ids \in SUBSET SplitIds : MetastoreCall(name, ids)
    \/ \E id \in SplitIds : MetastoreStage(id)

CampaignIdle == [pc |-> "idle", split |-> 0]

OpIdle == [pc |-> "idle", name |-> "none", dry_run |-> FALSE, listed |-> {},
           removed |-> {}, result |-> "none", files |-> {}]

\* An index with the given rows, nothing in storage, nothing running.
IndexWith(rows) ==
    [row |-> TRUE,
     splits |-> rows,
     storage |-> [id \in SplitIds |-> 0],
     campaign |-> CampaignIdle,
     op |-> OpIdle,
     last_call |-> NoCall]

\* create_index: the index row, no split.
create_index == index = IndexWith(NoRows)

\* ------------------------------------------------------- indexing campaign
\* The uploader and the publisher of a campaign: allocate a split id, stage
\* it, upload its files one by one, publish it.
NewSplitId == index.campaign.split + 1

\* Uploader: stage_split of a new split id.
CampaignStage ==
    /\ index.campaign.pc = "idle"
    /\ NewSplitId \in SplitIds
    /\ index' = [index EXCEPT
                   !.splits = stage_split(index.row, index.splits, NewSplitId).rows,
                   !.campaign = [pc |-> IF stage_split(index.row, index.splits,
                                                       NewSplitId).ok
                                        THEN "uploading" ELSE "idle",
                                 split |-> NewSplitId]]
    /\ UNCHANGED outside_index

\* Uploader: one more file is put under <index URI>/<split id>/.
CampaignUpload ==
    /\ index.campaign.pc = "uploading"
    /\ index.storage[index.campaign.split] < MaxFiles
    /\ index' = [index EXCEPT !.storage[index.campaign.split] = @ + 1]
    /\ UNCHANGED outside_index

\* Uploader: every file is uploaded and the manifest goes to the publisher,
\* or an upload failed and the split stays Staged.
CampaignUploadEnds ==
    /\ index.campaign.pc = "uploading"
    /\ \/ /\ index.storage[index.campaign.split] = MaxFiles
          /\ index' = [index EXCEPT !.campaign.pc = "publishing"]
       \/ index' = [index EXCEPT !.campaign.pc = "idle"]
    /\ UNCHANGED outside_index

\* Publisher: publish_splits of the split of the manifest.
CampaignPublish ==
    /\ index.campaign.pc = "publishing"
    /\ index' = [index EXCEPT
                   !.splits = publish_splits(index.row, index.splits,
                                             {index.campaign.split}).rows,
                   !.campaign.pc = "idle"]
    /\ UNCHANGED outside_index

Campaign ==
    \/ CampaignStage
    \/ CampaignUpload
    \/ CampaignUploadEnds
    \/ CampaignPublish

\* --------------------------------------- delete_index, garbage_collect_index
\* remove_split_files_from_storage(split_uri, resolver, dry_run): the files
\* under the prefix, removed unless dry_run.
remove_split_files_from_storage(files, dry_run) ==
    [left |-> IF dry_run THEN files ELSE 0, entries |-> files]

\* A list_splits_files that passes dry_run = false (mutant).
list_splits_files_remove(ids, store) ==
    [store |-> [id \in SplitIds |->
                  IF id \in ids
                  THEN remove_split_files_from_storage(store[id], FALSE).left
                  ELSE store[id]],
     files |-> {id \in ids : remove_split_files_from_storage(store[id], FALSE).entries > 0}]

\* list_splits_files: remove_split_files_from_storage(.., true) of each split.
list_splits_files(ids, store) ==
    [store |-> [id \in SplitIds |->
                  IF id \in ids
                  THEN remove_split_files_from_storage(store[id], TRUE).left
                  ELSE store[id]],
     files |-> {id \in ids : remove_split_files_from_storage(store[id], TRUE).entries > 0}]

\* The first call of each operation: delete_index looks at dry_run first,
\* garbage_collect_index lists the Staged splits first.
FirstStep(name, dry_run) ==
    IF name = "delete_index"
    THEN IF dry_run THEN "dry_list" ELSE "list_published"
    ELSE "list_staged"

\* `?` on an Err: the operation returns the error.
OpFails == [index.op EXCEPT !.pc = "returned", !.result = "Err", !.files = {}]

\* A metastore read of the operation: its next position and what it has
\* listed, or the error of a missing index.
OpReads(next, listed) ==
    IF index.row
    THEN [index.op EXCEPT !.pc = next, !.listed = listed]
    ELSE OpFails

\* delete_index or garbage_collect_index is called.
OpCall(name, dry_run) ==
    /\ index.op.pc \in {"idle", "returned"}
    /\ index' = [index EXCEPT
                   !.op = [OpIdle EXCEPT !.pc = FirstStep(name, dry_run), !.name = name,
                                         !.dry_run = dry_run]]
    /\ UNCHANGED outside_index

\* delete_index(dry_run = true): list_all_splits and index_metadata.
OpDryList ==
    /\ index.op.pc = "dry_list"
    /\ index' = [index EXCEPT !.op = OpReads("enumerate", list_all_splits(index.splits))]
    /\ UNCHANGED outside_index

\* The dry runs: list_splits_files, and return its file list.
OpEnumerate ==
    /\ index.op.pc = "enumerate"
    /\ index' = [index EXCEPT
                   !.storage = list_splits_files(index.op.listed, index.storage).store,
                   !.op = [@ EXCEPT
                             !.pc = "returned",
                             !.result = "Ok",
                             !.files = list_splits_files(index.op.listed,
                                                         index.storage).files]]
    /\ UNCHANGED outside_index

\* delete_index: list_splits(Published)
OpListPublished ==
    /\ index.op.pc = "list_published"
    /\ index' = [index EXCEPT
                   !.op = OpReads("list_staged", list_splits(index.splits, "Published"))]
    /\ UNCHANGED outside_index

\* delete_index and garbage_collect_index: list_splits(Staged). The dry run
\* of garbage_collect_index goes on with the ScheduledForDeletion splits.
OpListStaged ==
    /\ index.op.pc = "list_staged"
    /\ index' = [index EXCEPT
                   !.op = OpReads(IF index.op.name = "garbage_collect_index"
                                     /\ index.op.dry_run
                                  THEN "dry_list_scheduled" ELSE "mark",
                                  index.op.listed \cup list_splits(index.splits, "Staged"))]
    /\ UNCHANGED outside_index

\* garbage_collect_index(dry_run = true): list_splits(ScheduledForDeletion)
\* and index_metadata.
OpDryListScheduled ==
    /\ index.op.pc = "dry_list_scheduled"
    /\ index' = [index EXCEPT
                   !.op = OpReads("enumerate",
                                  index.op.listed
                                    \cup list_splits(index.splits, "ScheduledForDeletion"))]
    /\ UNCHANGED outside_index

\* mark_splits_as_deleted of the listed splits.
OpMark ==
    /\ index.op.pc = "mark"
    /\ index' = [index EXCEPT
                   !.splits = mark_splits_as_deleted(index.row, index.splits,
                                                     index.op.listed).rows,
                   !.op = IF mark_splits_as_deleted(index.row, index.splits,
                                                    index.op.listed).ok
                          THEN [@ EXCEPT !.pc = "garbage_list", !.listed = {}]
                          ELSE OpFails]
    /\ UNCHANGED outside_index

\* delete_garbage_files: list_splits(ScheduledForDeletion) and index_metadata.
OpGarbageList ==
    /\ index.op.pc = "garbage_list"
    /\ index' = [index EXCEPT
                   !.op = OpReads("garbage_remove",
                                  list_splits(index.splits, "ScheduledForDeletion"))]
    /\ UNCHANGED outside_index

\* delete_garbage_files: remove_split_files_from_storage(.., false) of one of
\* the listed splits, in any order; a storage error ends the operation.
OpGarbageRemove ==
    /\ index.op.pc = "garbage_remove"
    /\ \E id \in index.op.listed \ index.op.removed :
         \/ index' = [index EXCEPT
                        !.storage[id] = remove_split_files_from_storage(@, FALSE).left,
                        !.op.removed = @ \cup {id},
                        !.op.files = @ \cup
                          {x \in {id} :
                             remove_split_files_from_storage(index.storage[id],
                                                             FALSE).entries > 0}]
         \/ index' = [index EXCEPT !.op = OpFails]
    /\ UNCHANGED outside_index

\* A delete_garbage_files that calls delete_splits without waiting for the
\* removal of the files (mutant).
OpGarbageDeleteSplitsEarly ==
    /\ index.op.pc = "garbage_remove"
    /\ index' = [index EXCEPT
                   !.splits = delete_splits(index.row, index.splits, index.op.listed).rows,
                   !.op = [@ EXCEPT !.pc = "returned", !.result = "Ok"]]
    /\ UNCHANGED outside_index

\* delete_garbage_files: delete_splits of the listed splits, and return;
\* garbage_collect_index returns with it.
OpGarbageDeleteSplits ==
    /\ index.op.pc = "garbage_remove"
    /\ index.op.removed = index.op.listed
    /\ index' = [index EXCEPT
                   !.splits = delete_splits(index.row, index.splits, index.op.listed).rows,
                   !.op = IF ~delete_splits(index.row, index.splits, index.op.listed).ok
                          THEN OpFails
                          ELSE IF index.op.name = "delete_index"
                               THEN [@ EXCEPT !.pc = "delete_index_row"]
                               ELSE [@ EXCEPT !.pc = "returned", !.result = "Ok"]]
    /\ UNCHANGED outside_index

\* delete_index: metastore.delete_index removes the metadata set of the
\* index, its split rows with it.
OpDeleteIndexRow ==
    /\ index.op.pc = "delete_index_row"
    /\ index' = IF index.row
                THEN [index EXCEPT
                        !.row = FALSE,
                        !.splits = NoRows,
                        !.op = [@ EXCEPT !.pc = "returned", !.result = "Ok"]]
                ELSE [index EXCEPT !.op = OpFails]
    /\ UNCHANGED outside_index

IndexOp ==
    \/ \E name \in {"delete_index", "garbage_collect_index"}, dry_run \in BOOLEAN :
         OpCall(name, dry_run)
    \/ OpDryList
    \/ OpEnumerate
    \/ OpListPublished
    \/ OpListStaged
    \/ OpDryListScheduled
    \/ OpMark
    \/ OpGarbageList
    \/ OpGarbageRemove
    \/ OpGarbageDeleteSplits
    \/ OpDeleteIndexRow

IndexNext == Campaign \/ IndexOp

\* -------------------------------------------------------------------- clock
\* enum Command
Commands == {"Terminate", "Run", "Pause"}

\* An apply_command without its first arm (mutant).
apply_command_no_absorb(state, command) ==
    CASE command = "Terminate" -> "Terminated"
      [] command = "Pause" -> "Idle"
      [] command = "Run" -> "Running"

\* apply_command: the match, arm by arm.
apply_command(state, command) ==
    IF state = "Terminated" THEN "Terminated"
    ELSE IF command = "Terminate" THEN "Terminated"
    ELSE IF command = "Pause" THEN "Idle"
    ELSE "Running"

\* A ticker that keeps the Arc instead of a Weak (mutant).
upgrade_strong(alive) == TRUE

\* `state_weak.upgrade()` is Some as long as the controller holds the Arc.
upgrade(alive) == alive

TickerAtTick == [pc |-> "tick", snapshot |-> "none"]

\* clock(duration, mailbox): State::Idle, the ticker task spawned.
clock ==
    clk = [state |-> "Idle",
           controller |-> TRUE,
           ticker |-> TickerAtTick,
           tick_inbox |-> 0,
           tick_receiver |-> TRUE,
           last_command |-> [command |-> "none", found |-> "Idle"],
           after_drop |-> FALSE]

\* ClockController::run_command (run, pause, terminate), under the write lock.
RunCommand(command) ==
    /\ clk.controller
    /\ clk' = [clk EXCEPT
                 !.state = apply_command(@, command),
                 !.last_command = [command |-> command, found |-> clk.state]]
    /\ UNCHANGED outside_clock

\* mem::drop(clock_controller)
DropController ==
    /\ clk.controller
    /\ clk' = [clk EXCEPT !.controller = FALSE]
    /\ UNCHANGED outside_clock

\* `interval.tick().await`: a period begins.
TickerTick ==
    /\ clk.ticker.pc = "tick"
    /\ clk' = [clk EXCEPT
                 !.ticker = [pc |-> "upgrade", snapshot |-> "none"],
                 !.after_drop = ~clk.controller]
    /\ UNCHANGED outside_clock

\* `if let Some(state) = state_weak.upgrade() { .. } else { return; }`
TickerUpgrade ==
    /\ clk.ticker.pc = "upgrade"
    /\ clk' = [clk EXCEPT
                 !.ticker.pc = IF upgrade(clk.controller) THEN "read" ELSE "done"]
    /\ UNCHANGED outside_clock

\* `let state_snapshot = state.read().await.clone(); match state_snapshot`
TickerRead ==
    /\ clk.ticker.pc = "read"
    /\ clk' = [clk EXCEPT
                 !.ticker = [pc |-> CASE clk.state = "Idle" -> "tick"
                                      [] clk.state = "Running" -> "send"
                                      [] clk.state = "Terminated" -> "done",
                             snapshot |-> clk.state]]
    /\ UNCHANGED outside_clock

\* `mailbox.send_async(Tick).await`: waits while the mailbox is full, fails
\* once its receiver is gone.
TickerSend ==
    /\ clk.ticker.pc = "send"
    /\ IF clk.tick_receiver
       THEN /\ clk.tick_inbox < QueueLimit
            /\ clk' = [clk EXCEPT !.tick_inbox = @ + 1, !.ticker = TickerAtTick]
       ELSE clk' = [clk EXCEPT !.ticker.pc = "write"]
    /\ UNCHANGED outside_clock

\* A ticker that returns on a failed send without the write (mutant).
TickerWriteSkip ==
    /\ clk.ticker.pc = "write"
    /\ clk' = [clk EXCEPT !.ticker.pc = "done"]
    /\ UNCHANGED outside_clock

\* `*wlock = State::Terminated; return;`
TickerWrite ==
    /\ clk.ticker.pc = "write"
    /\ clk' = [clk EXCEPT !.state = "Terminated", !.ticker.pc = "done"]
    /\ UNCHANGED outside_clock

Ticker ==
    \/ TickerTick
    \/ TickerUpgrade
    \/ TickerRead
    \/ TickerSend
    \/ TickerWrite

\* The owner of the mailbox takes a Tick out of it.
TickReceive ==
    /\ clk.tick_receiver
    /\ clk.tick_inbox > 0
    /\ clk' = [clk EXCEPT !.tick_inbox = @ - 1]
    /\ UNCHANGED outside_clock

\* The owner of the mailbox terminates: the receiver is dropped with what it
\* holds.
TickReceiverDrop ==
    /\ clk.tick_receiver
    /\ clk' = [clk EXCEPT !.tick_receiver = FALSE, !.tick_inbox = 0]
    /\ UNCHANGED outside_clock

ClockNext ==
    \/ \E command \in Commands : RunCommand(command)
    \/ DropController
    \/ Ticker
    \/ TickReceive
    \/ TickReceiverDrop

\* -------------------------------------------------------------- root search
\* The leaf nodes of the client pool; node n is assigned the job of split n.
Leaves == 1..MaxLeaves

\* SearchRequest.max_hits and SearchRequest.start_offset are u32: a value
\* is kept as its two 16-bit halves, and n below 2^16 is u32(n).
u32(n) == [hi |-> 0, lo |-> n]

U32Max == [hi |-> 2^16 - 1, lo |-> 2^16 - 1]

\* The smaller of a u32 and a length.
AtMost(value, length) ==
    IF value.hi > 0 \/ value.lo > length THEN length ELSE value.lo

\* The max_hits and start_offset of the requests: small ones and the largest.
RequestValues == {u32(0), u32(1), u32(2), U32Max}

\* What a split can hold: the sorting values of its matching documents, in
\* descending order.
Matches ==
    {m \in UNION {[1..n -> 1..MaxValue] : n \in 0..MaxMatches} :
       \A i \in 1..Len(m) - 1 : m[i] >= m[i + 1]}

\* PartialHit{sorting_field_value, split_id, doc_id}
PartialHit(value, split, doc) == [value |-> value, split |-> split, doc |-> doc]

\* The hits of a set of partial hits from the best down: by descending
\* sorting value, then by split and document.
RECURSIVE Ranking(_)
Ranking(hits) ==
    IF hits = {} THEN <<>>
    ELSE LET best == CHOOSE h \in hits :
                       \A g \in hits :
                          \/ h.value > g.value
                          \/ h.value = g.value /\ h.split < g.split
                          \/ h.value = g.value /\ h.split = g.split /\ h.doc <= g.doc
         IN <<best>> \o Ranking(hits \ {best})

\* The entries of a sequence from offset on, max_hits of them at most.
Window(ranking, offset, max_hits) ==
    [i \in 1..AtMost(max_hits, Len(ranking) - AtMost(offset, Len(ranking))) |->
       ranking[AtMost(offset, Len(ranking)) + i]]

\* The collector of a request, run on a split by a leaf node: the number
\* of matches, and the best start_offset + max_hits of them.
leaf_search_result(request, split, matches) ==
    [num_hits |-> Len(matches),
     partial_hits |->
       Window(Ranking({PartialHit(matches[d], split, d) : d \in 1..Len(matches)}),
              u32(0),
              u32(AtMost(u32(AtMost(request.start_offset, Len(matches))
                               + AtMost(request.max_hits, Len(matches))),
                         Len(matches))))]

\* The hits of some leaf search results, as a set.
HitsOf(results) == UNION {{r.partial_hits[i] : i \in 1..Len(r.partial_hits)} : r \in results}

RECURSIVE Sum(_)
Sum(numbers) ==
    IF numbers = <<>> THEN 0 ELSE numbers[1] + Sum(Tail(numbers))

\* Collector::merge_fruits of the collector of a request: num_hits is
\* the sum, partial_hits the window of the request over the ranking of all
\* the hits.
merge_fruits(request, results) ==
    [num_hits |-> Sum([i \in 1..Len(results) |-> results[i].num_hits]),
     partial_hits |->
       Window(Ranking(HitsOf({results[i] : i \in 1..Len(results)})),
              request.start_offset, request.max_hits)]

\* A closure that sorts by ascending order (mutant).
sort_ascending(hit1, hit2) == hit1.value < hit2.value

\* The closure of hits.sort_by: `value2.cmp(&value1)` is Less, hit1 goes first.
sort_descending(hit1, hit2) == hit2.value < hit1.value

\* Vec::sort_by with the closure above: a stable sort.
RECURSIVE sort_by(_)
sort_by(hits) ==
    IF hits = <<>> THEN <<>>
    ELSE LET sorted == sort_by(SubSeq(hits, 1, Len(hits) - 1))
             hit == hits[Len(hits)]
             after == {i \in 1..Len(sorted) : sort_descending(hit, sorted[i])}
             pos == IF after = {} THEN Len(sorted) + 1
                    ELSE CHOOSE i \in after : \A j \in after : i <= j
         IN SubSeq(sorted, 1, pos - 1) \o <<hit>> \o SubSeq(sorted, pos, Len(sorted))

\* The arithmetic sum of two u32, its upper half unbounded.
Plus(a, b) ==
    [hi |-> a.hi + b.hi + (a.lo + b.lo) \div 2^16, lo |-> (a.lo + b.lo) % 2^16]

\* `max_hits += start_offset` on u32: the sum, or what a build makes of a
\* sum that does not fit: a panic (overflow checks) or the sum modulo 2^32.
add_assign(max_hits, start_offset) ==
    IF Plus(max_hits, start_offset).hi < 2^16
    THEN {[panic |-> FALSE, value |-> Plus(max_hits, start_offset)]}
    ELSE {[panic |-> TRUE, value |-> max_hits],
          [panic |-> FALSE, value |-> [Plus(max_hits, start_offset) EXCEPT !.hi = @ % 2^16]]}

NoResponse == [ok |-> FALSE, num_hits |-> 0, partial_hits |-> <<>>]

\* root_search is called with a request; each leaf node holds a split.
RootInit(request, matches) ==
    [request |-> request,
     matches |-> matches,
     pc |-> "build_request",
     leaf_request |-> request,
     responses |-> [n \in Leaves |-> NoResponse],
     merged |-> [num_hits |-> 0, partial_hits |-> <<>>],
     fetched |-> {},
     result |-> [ok |-> FALSE, num_hits |-> 0, hits |-> <<>>]]

\* `search_request_with_offset_0`: start_offset = 0, max_hits += start_offset.
RootBuildRequest ==
    /\ root.pc = "build_request"
    /\ \E sum \in add_assign(root.request.max_hits, root.request.start_offset) :
         root' = IF sum.panic
                 THEN [root EXCEPT !.pc = "panicked"]
                 ELSE [root EXCEPT !.pc = "execute_search",
                                   !.leaf_request = [start_offset |-> u32(0),
                                                     max_hits |-> sum.value]]
    /\ UNCHANGED outside_root

\* execute_search: a leaf_search request to every node; each answers or fails.
RootExecuteSearch ==
    /\ root.pc = "execute_search"
    /\ \E answers \in SUBSET Leaves :
         root' = [root EXCEPT
                    !.pc = "leaf_results",
                    !.responses =
                      [n \in Leaves |->
                         IF n \in answers
                         THEN [ok |-> TRUE] @@
                              leaf_search_result(root.leaf_request, n, root.matches[n])
                         ELSE NoResponse]]
    /\ UNCHANGED outside_root

\* The loop over result_per_node_addr: an Err returns the error of the node;
\* otherwise merge_fruits of all the results.
RootMerge ==
    /\ root.pc = "leaf_results"
    /\ root' = IF \E n \in Leaves : ~root.responses[n].ok
               THEN [root EXCEPT !.pc = "returned",
                                 !.result = [ok |-> FALSE, num_hits |-> 0, hits |-> <<>>]]
               ELSE [root EXCEPT !.pc = "fetch_docs",
                                 !.merged = merge_fruits(root.request,
                                                         [n \in Leaves |-> root.responses[n]])]
    /\ UNCHANGED outside_root

\* The fetch docs phase: a request to each node whose split has partial
\* hits; a request that fails is logged and skipped.
RootFetchDocs ==
    /\ root.pc = "fetch_docs"
    /\ \E fetched \in SUBSET {n \in Leaves :
                               \E i \in 1..Len(root.merged.partial_hits) :
                                  root.merged.partial_hits[i].split = n} :
         root' = [root EXCEPT !.pc = "sort", !.fetched = fetched]
    /\ UNCHANGED outside_root

\* The hits of the responses, node by node, each in the order of its request.
FetchedHits ==
    LET of_node(n) == SelectSeq(root.merged.partial_hits, LAMBDA h : h.split = n)
        RECURSIVE extend(_)
        extend(n) == IF n = 0 THEN <<>>
                     ELSE extend(n - 1) \o (IF n \in root.fetched THEN of_node(n) ELSE <<>>)
    IN extend(MaxLeaves)

\* hits.sort_by(..) and the SearchResult.
RootReturn ==
    /\ root.pc = "sort"
    /\ root' = [root EXCEPT !.pc = "returned",
                            !.result = [ok |-> TRUE,
                                        num_hits |-> root.merged.num_hits,
                                        hits |-> sort_by(FetchedHits)]]
    /\ UNCHANGED outside_root

RootNext ==
    \/ RootBuildRequest
    \/ RootExecuteSearch
    \/ RootMerge
    \/ RootFetchDocs
    \/ RootReturn

\* ----------------------------------------------------------- analyze_errors
\* Result<LeafSearchResult, NodeSearchError> of a node, as analyze_errors
\* reads it: the splits of failed_requests and num_attempted_splits.
NodeSearchError == [ok |-> FALSE, failed_requests |-> {}, num_attempted_splits |-> 0]

NodeResults ==
    {NodeSearchError} \cup
    {r \in [ok : {TRUE}, failed_requests : SUBSET SplitIds,
            num_attempted_splits : 0..MaxSplit] :
       Cardinality(r.failed_requests) <= r.num_attempted_splits}

\* The filter of complete_failure_nodes.
complete_failure(result) ==
    IF result.ok
    THEN Cardinality(result.failed_requests) = result.num_attempted_splits
    ELSE TRUE

\* analyze_errors(search_result): None, or Some(ErrorRetries); a split id
\* is given with the node it was searched on.
analyze_errors(search_result) ==
    LET nodes == DOMAIN search_result
        contains_errors ==
            \E n \in nodes : ~search_result[n].ok \/ search_result[n].failed_requests = {}
        complete_failure_nodes == {n \in nodes : complete_failure(search_result[n])}
        partial_or_no_failure_nodes ==
            {n \in nodes : search_result[n].ok
                           /\ Cardinality(search_result[n].failed_requests)
                                # search_result[n].num_attempted_splits}
        failed_split_ids ==
            UNION {{<<n, id>> : id \in search_result[n].failed_requests} :
                     n \in {m \in nodes : search_result[m].ok}}
    IN IF ~contains_errors
       THEN [some |-> FALSE, retry_split_ids |-> {}, nodes_to_use |-> {}]
       ELSE [some |-> TRUE,
             retry_split_ids |-> failed_split_ids,
             nodes_to_use |-> IF partial_or_no_failure_nodes = {}
                              THEN complete_failure_nodes
                              ELSE partial_or_no_failure_nodes]

\* analyze_errors is called with the results of the nodes, and returns.
AnalyzeErrors ==
    /\ analysis.pc = "called"
    /\ analysis' = [analysis EXCEPT !.pc = "returned",
                                    !.result = analyze_errors(analysis.search_result)]
    /\ UNCHANGED outside_analysis

\* -------------------------------------------------------------- leaf search
\* What ends a warm-up with an error: a fetch of a posting list, a fast
\* field the schema does not have, a field that is not fast, a fetch of a
\* fast field slice.
WarmUpErrors == {"warm_postings", "get_field", "is_fast", "read_bytes_async"}

\* A `?` that drops the error (mutant).
question_mark_ignored(res, next) == next

\* `.await?`: on an Err the task returns it, on Ok it goes on.
question_mark(res, next) == IF res = "Ok" THEN next ELSE "done"

\* leaf_search_single_split of a split, before open_index.
TaskInit ==
    [pc |-> "open_index", res |-> "Ok", terms |-> FALSE, fastfields |-> FALSE,
     searched |-> FALSE, num_hits |-> 0]

\* The task after a step that was at `at` and got res from what it awaited.
TaskStep(task, at, res, next) ==
    [task EXCEPT
       !.pc = question_mark(res, next),
       !.res = res,
       !.terms = @ \/ (at = "warm_up_terms" /\ res = "Ok"),
       !.fastfields = @ \/ (at = "warm_up_fastfields" /\ res = "Ok")]

\* open_index(storage).await? and the reader.
TaskOpenIndex(split) ==
    /\ leaf.pc = "join_all"
    /\ leaf.tasks[split].pc = "open_index"
    /\ \E res \in {"Ok", "open_index"} :
         leaf' = [leaf EXCEPT
                    !.tasks[split] = TaskStep(@, "open_index", res, "warm_up_terms")]
    /\ UNCHANGED outside_leaf

\* warm_up_terms(searcher, query).await?
TaskWarmUpTerms(split) ==
    /\ leaf.pc = "join_all"
    /\ leaf.tasks[split].pc = "warm_up_terms"
    /\ \E res \in {"Ok", "warm_postings"} :
         leaf' = [leaf EXCEPT
                    !.tasks[split] = TaskStep(@, "warm_up_terms", res, "warm_up_fastfields")]
    /\ UNCHANGED outside_leaf

\* warm_up_fastfields(searcher, quickwit_collector).await?
TaskWarmUpFastfields(split) ==
    /\ leaf.pc = "join_all"
    /\ leaf.tasks[split].pc = "warm_up_fastfields"
    /\ \E res \in {"Ok", "get_field", "is_fast", "read_bytes_async"} :
         leaf' = [leaf EXCEPT
                    !.tasks[split] = TaskStep(@, "warm_up_fastfields", res, "search")]
    /\ UNCHANGED outside_leaf

\* searcher.search(query, &quickwit_collector)?: the collector runs.
TaskSearch(split) ==
    /\ leaf.pc = "join_all"
    /\ leaf.tasks[split].pc = "search"
    /\ \E res \in {"Ok", "search"}, num_hits \in 0..MaxMatches :
         leaf' = [leaf EXCEPT
                    !.tasks[split].pc = "done",
                    !.tasks[split].res = res,
                    !.tasks[split].searched = TRUE,
                    !.tasks[split].num_hits = IF res = "Ok" THEN num_hits ELSE 0]
    /\ UNCHANGED outside_leaf

\* join_all is over: the results are partitioned, the Ok ones go to
\* merge_fruits (it adds up num_hits and joins the failed_requests of the
\* results, which have none), the errors are dropped.
LeafMerge ==
    /\ leaf.pc = "join_all"
    /\ \A split \in SplitIds : leaf.tasks[split].pc = "done"
    /\ leaf' = [leaf EXCEPT
                  !.pc = "returned",
                  !.result =
                    [ok |-> TRUE,
                     num_hits |-> Sum([split \in SplitIds |->
                                         IF leaf.tasks[split].res = "Ok"
                                         THEN leaf.tasks[split].num_hits ELSE 0]),
                     failed_requests |-> {}]]
    /\ UNCHANGED outside_leaf

LeafNext ==
    \/ \E split \in SplitIds :
         \/ TaskOpenIndex(split)
         \/ TaskWarmUpTerms(split)
         \/ TaskWarmUpFastfields(split)
         \/ TaskSearch(split)
    \/ LeafMerge

\* -------------------------------------------------------- caching directory
Paths == 1..MaxFiles

\* Range<usize> within a file.
ByteRanges == {range \in (0..MaxBytes) \X (0..MaxBytes) : range[1] < range[2]}

\* The bytes of a file of the underlying directory: files are never
\* written through this layer.
underlying_read_bytes(path, byte_range) ==
    [i \in 1..(byte_range[2] - byte_range[1]) |->
        path * (MaxBytes + 1) + byte_range[1] + i - 1]

\* Number of bytes the SliceCache holds.
NumBytes(slices) == Sum([i \in 1..Len(slices) |-> Len(slices[i].bytes)])

\* SliceCache::get: the entry of exactly this path and range, which becomes
\* the most recently used.
SliceCacheGet(slices, path, byte_range) ==
    LET hits == {i \in 1..Len(slices) :
                    slices[i].path = path /\ slices[i].byte_range = byte_range}
    IN  IF hits = {}
        THEN [some |-> FALSE, bytes |-> <<>>, slices |-> slices]
        ELSE LET i == CHOOSE hit \in hits : TRUE
             IN  [some |-> TRUE, bytes |-> slices[i].bytes,
                  slices |-> Append(SelectSeq(slices, LAMBDA slice : slice # slices[i]),
                                    slices[i])]

\* The least recently used entries go until `needed` bytes fit.
RECURSIVE Evict(_, _, _)
Evict(slices, capacity, needed) ==
    IF slices = <<>> \/ NumBytes(slices) + needed <= capacity
    THEN slices
    ELSE Evict(Tail(slices), capacity, needed)

\* SliceCache::put: a payload larger than the capacity is not kept.
SliceCachePut(slices, capacity, path, byte_range, bytes) ==
    LET slice == [path |-> path, byte_range |-> byte_range, bytes |-> bytes]
    IN  IF capacity.unlimited THEN Append(slices, slice)
        ELSE IF Len(bytes) > capacity.bytes THEN slices
        ELSE Append(Evict(slices, capacity.bytes, Len(bytes)), slice)

\* A read_bytes that does not put what it read (mutant).
put_nothing(slices, capacity, path, byte_range, bytes) == slices

\* self.cache.put(path, byte_range, bytes) of read_bytes.
put(slices, capacity, path, byte_range, bytes) ==
    SliceCachePut(slices, capacity, path, byte_range, bytes)

\* The history after a read.
Recorded(path, byte_range, ok, bytes) ==
    [cache EXCEPT
       !.reads = @ + 1,
       !.last_read = [path |-> path, byte_range |-> byte_range, ok |-> ok, bytes |-> bytes],
       !.first_reads =
           IF ok /\ \A read \in @ : ~(read.path = path /\ read.byte_range = byte_range)
           THEN @ \cup {[path |-> path, byte_range |-> byte_range, bytes |-> bytes]}
           ELSE @]

\* CachingFileHandle::read_bytes when the cache has the range.
ReadBytesHit(path, byte_range) ==
    /\ cache.reads < MaxReads
    /\ LET got == SliceCacheGet(cache.slices, path, byte_range)
       IN  /\ got.some
           /\ cache' = [Recorded(path, byte_range, TRUE, got.bytes) EXCEPT
                          !.slices = got.slices]
    /\ UNCHANGED outside_cache

\* CachingFileHandle::read_bytes when it has not: the underlying file
\* handle reads, what it read is put in the cache and returned.
ReadBytesMiss(path, byte_range) ==
    /\ cache.reads < MaxReads
    /\ ~SliceCacheGet(cache.slices, path, byte_range).some
    /\ LET bytes == underlying_read_bytes(path, byte_range)
       IN  cache' = [Recorded(path, byte_range, TRUE, bytes) EXCEPT
                       !.underlying_reads = @ + 1,
                       !.put_bytes = @ + Len(bytes),
                       !.slices = put(@, cache.capacity, path, byte_range, bytes)]
    /\ UNCHANGED outside_cache

\* CachingFileHandle::read_bytes when the underlying read fails: `?`.
ReadBytesError(path, byte_range) ==
    /\ cache.reads < MaxReads
    /\ ~SliceCacheGet(cache.slices, path, byte_range).some
    /\ cache' = [Recorded(path, byte_range, FALSE, <<>>) EXCEPT
                   !.underlying_reads = @ + 1]
    /\ UNCHANGED outside_cache

CacheNext ==
    \E path \in Paths, byte_range \in ByteRanges :
       \/ ReadBytesHit(path, byte_range)
       \/ ReadBytesMiss(path, byte_range)
       \/ ReadBytesError(path, byte_range)

\* ------------------------------------------------------------------ indexer
\* Partition ids of the source.
Partitions == {"partition0", "partition1"}

\* Positions within a partition, in their order.
Positions == 0..MaxValue

\* A Checkpoint: per_partition_position.
Checkpoints == UNION {[partitions -> Positions] : partitions \in SUBSET Partitions}

\* Checkpoint::default().
NoPosition == [partition \in {} |-> 0]

\* Checkpoint::update_checkpoint: every position of the update is inserted.
update_checkpoint(self, checkpoint_update) ==
    [partition \in DOMAIN self \cup DOMAIN checkpoint_update |->
        IF partition \in DOMAIN checkpoint_update
        THEN checkpoint_update[partition]
        ELSE self[partition]]

\* What inbox.recv_timeout gives: a Batch whose docs parse or not, an
\* Observe, the disconnection of the mailbox, a timeout.
Received ==
    [kind : {"Message"}, docs : {"Ok", "Err"}, checkpoint_update : Checkpoints]
    \cup [kind : {"Observe", "Disconnected", "Timeout"}, docs : {"Ok"},
          checkpoint_update : {NoPosition}]

\* A kill_switch.is_alive() of sync_actor_loop that finds the switch dead.
IndexerKillSwitch ==
    /\ indexer.pc \in {"loop", "received"}
    /\ ~indexer.alive
    /\ indexer' = [indexer EXCEPT !.pc = "returned", !.termination = "KillSwitch"]
    /\ UNCHANGED outside_indexer

\* inbox.recv_timeout(..).
IndexerRecv ==
    /\ indexer.pc = "loop"
    /\ indexer.alive
    /\ Len(indexer.processed) < MaxSend
    /\ \E msg \in Received : indexer' = [indexer EXCEPT !.pc = "received", !.msg = msg]
    /\ UNCHANGED outside_indexer

\* The mailbox of an indexer that processed its batches disconnects or
\* times out.
IndexerRecvLast ==
    /\ indexer.pc = "loop"
    /\ indexer.alive
    /\ Len(indexer.processed) = MaxSend
    /\ \E msg \in {received \in Received : received.kind # "Message"} :
         indexer' = [indexer EXCEPT !.pc = "received", !.msg = msg]
    /\ UNCHANGED outside_indexer

\* Indexer::process_message: the docs are parsed and added, then the
\* checkpoint is updated; a doc that does not parse is an error, which
\* kills the switch.
IndexerProcessMessage ==
    /\ indexer.pc = "received"
    /\ indexer.alive
    /\ indexer.msg.kind = "Message"
    /\ indexer' =
         IF indexer.msg.docs = "Ok"
         THEN [indexer EXCEPT
                 !.pc = "loop",
                 !.checkpoint = update_checkpoint(@, indexer.msg.checkpoint_update),
                 !.processed = Append(@, indexer.msg.checkpoint_update)]
         ELSE [indexer EXCEPT
                 !.pc = "returned", !.alive = FALSE, !.termination = "ActorError"]
    /\ UNCHANGED outside_indexer

\* Observe, Timeout: the loop goes on.
IndexerContinue ==
    /\ indexer.pc = "received"
    /\ indexer.alive
    /\ indexer.msg.kind \in {"Observe", "Timeout"}
    /\ indexer' = [indexer EXCEPT !.pc = "loop"]
    /\ UNCHANGED outside_indexer

\* The IndexedSplit finalize builds.
IndexedSplit == [directory |-> "scratch.tempdir", label |-> "split_label"]

\* Disconnected: Indexer::finalize commits the writer and sends the
\* IndexedSplit to the packager; either can fail.
IndexerFinalize ==
    /\ indexer.pc = "received"
    /\ indexer.alive
    /\ indexer.msg.kind = "Disconnected"
    /\ \E commit \in {"Ok", "Err"}, send_blocking \in {"Ok", "Err"} :
         indexer' =
           IF commit = "Ok" /\ send_blocking = "Ok"
           THEN [indexer EXCEPT
                   !.pc = "returned",
                   !.packager_inbox = Append(@, IndexedSplit),
                   !.termination = "Disconnect"]
           ELSE [indexer EXCEPT !.pc = "returned", !.termination = "ActorError"]
    /\ UNCHANGED outside_indexer

\* Another actor of the campaign, or the watchdog, kills the switch.
IndexerKill ==
    /\ indexer.pc # "returned"
    /\ indexer.alive
    /\ indexer' = [indexer EXCEPT !.alive = FALSE]
    /\ UNCHANGED outside_indexer

IndexerNext ==
    \/ IndexerKillSwitch
    \/ IndexerRecv
    \/ IndexerRecvLast
    \/ IndexerProcessMessage
    \/ IndexerContinue
    \/ IndexerFinalize
    \/ IndexerKill

\* ----------------------------------------------------- progress and watchdog
\* Progress::record_progress, called by the actor: the flag is stored true.
BeatRecordProgress ==
    /\ beat.wd # "done"
    /\ beat.recorded < MaxRecorded
    /\ beat' = [beat EXCEPT !.progress = TRUE, !.recorded = @ + 1]
    /\ UNCHANGED outside_beat

\* `while kill_switch.is_alive()`, then interval.tick().await.
BeatLoop ==
    /\ beat.wd = "loop"
    /\ beat' = [beat EXCEPT !.wd = IF beat.alive THEN "tick" ELSE "done"]
    /\ UNCHANGED outside_beat

\* The tick elapsed: `if !progress.has_changed() { kill_switch.kill(); return; }`
BeatHasChanged ==
    /\ beat.wd = "tick"
    /\ beat.ticks < MaxTicks
    /\ beat' = IF beat.progress
               THEN [beat EXCEPT !.wd = "reset", !.ticks = @ + 1, !.recorded = 0]
               ELSE [beat EXCEPT !.wd = "done", !.ticks = @ + 1, !.recorded = 0,
                                 !.alive = FALSE,
                                 !.killed_by = IF beat.alive THEN "watchdog" ELSE @]
    /\ UNCHANGED outside_beat

\* progress.reset(): the flag is stored false.
BeatReset ==
    /\ beat.wd = "reset"
    /\ beat' = [beat EXCEPT !.progress = FALSE, !.wd = "loop"]
    /\ UNCHANGED outside_beat

\* Another holder of the kill switch calls kill().
BeatKill ==
    /\ beat.alive
    /\ beat' = [beat EXCEPT !.alive = FALSE, !.killed_by = "other"]
    /\ UNCHANGED outside_beat

BeatNext ==
    \/ BeatRecordProgress
    \/ BeatLoop
    \/ BeatHasChanged
    \/ BeatReset
    \/ BeatKill

\* --------------------------------------------------------------------- Spec
Actor ==
    \/ ActorTop
    \/ ActorRecv
    \/ ActorDispatch
    \/ ActorRecordProgress
    \/ ActorProcessReturn
    \/ ActorFinalize
    \/ SyncPublishFinal
    \/ AbortEffect

Next ==
    \/ Actor
    \/ Watchdog
    \/ \E k \in 0..MaxStep : Kill(k)
    \/ Send
    \/ DropMailboxes
    \/ ObserveCall
    \/ ObserveSend
    \/ DropAbandonedMarker
    \/ ObserveReturn

\* No search, no caching directory and no indexer in the scenario.
NoOther ==
    /\ root = "not built"
    /\ analysis = "not built"
    /\ leaf = "not built"
    /\ cache = "not built"
    /\ indexer = "not built"
    /\ beat = "not built"
    /\ pipeline = "not built"

\* One actor after its construction; no queue, no index, no clock.
Init ==
    ActorInit /\ queue = "not built" /\ index = "not built" /\ clk = "not built" /\ NoOther

Spec == Init /\ [][Next]_vars

\* In the specifications of the other components no actor runs: the actor
\* variables keep the values of one freshly spawned actor.
NoActor ==
    /\ ActorInit
    /\ flavour = "async"
    /\ step_id = KillSwitchDefault.step_id

QueueInit ==
    NoActor /\ unbounded_channel /\ index = "not built" /\ clk = "not built" /\ NoOther

\* The unique queue under any interleaving of its Senders and its Receiver.
QueueSpec == QueueInit /\ [][QueueNext]_vars

\* The setting of test_timeouting_actor: the handle and the mailbox are kept,
\* and nobody but the actor and its watchdog calls kill().
NextSupervised ==
    \/ ActorTop
    \/ ActorRecv
    \/ ActorDispatch
    \/ ActorRecordProgress
    \/ ActorProcessReturn
    \/ SyncPublishFinal
    \/ AbortEffect
    \/ Watchdog
    \/ Send
    \/ ObserveCall
    \/ ObserveSend
    \/ DropAbandonedMarker
    \/ ObserveReturn

\* The tokio runtime keeps scheduling the watchdog task.
FairSpec == Init /\ [][NextSupervised]_vars /\ WF_vars(Watchdog)

\* The same setting with a sender that keeps sending to the blocked actor.
NextBlocked == NextSupervised \/ SendWhileBlocked

\* The runtime keeps scheduling the watchdog, the actor and the task that
\* called observe(); the timeout of observe() elapses.
ObserveFairSpec ==
    /\ Init
    /\ [][NextBlocked]_vars
    /\ WF_vars(Watchdog)
    /\ WF_vars(ActorTop \/ ActorRecv \/ ActorDispatch \/ ActorProcessReturn
                 \/ SyncPublishFinal \/ AbortEffect)
    /\ WF_vars(ObserveSend)
    /\ WF_vars(DropAbandonedMarker)
    /\ WF_vars(ObserveReturn)

IndexInit ==
    NoActor /\ queue = "not built" /\ create_index /\ clk = "not built" /\ NoOther

\* One index: campaigns one after the other, and next to them the calls of
\* delete_index and garbage_collect_index one after the other.
IndexSpec == IndexInit /\ [][IndexNext]_vars

\* The Metastore called by its clients, from any rows an index can have.
MetastoreInit ==
    /\ NoActor
    /\ queue = "not built"
    /\ \E rows \in [SplitIds -> SplitStates \cup {"Absent"}] : index = IndexWith(rows)
    /\ clk = "not built"
    /\ NoOther

MetastoreSpec == MetastoreInit /\ [][MetastoreNext]_vars

ClockInit ==
    NoActor /\ queue = "not built" /\ index = "not built" /\ clock /\ NoOther

\* The clock under any interleaving of the commands of its controller, its
\* ticker task and the owner of the mailbox.
ClockSpec == ClockInit /\ [][ClockNext]_vars

\* The tokio runtime keeps scheduling the ticker task, and the owner of the
\* mailbox keeps receiving as long as it lives.
ClockFairSpec ==
    ClockInit /\ [][ClockNext]_vars /\ WF_vars(Ticker) /\ WF_vars(TickReceive)

RootSearchInit ==
    /\ NoActor
    /\ queue = "not built"
    /\ index = "not built"
    /\ clk = "not built"
    /\ \E start_offset \in RequestValues, max_hits \in RequestValues :
         \E matches \in [Leaves -> Matches] :
            root = RootInit([start_offset |-> start_offset, max_hits |-> max_hits], matches)
    /\ analysis = "not built"
    /\ leaf = "not built"
    /\ cache = "not built"
    /\ indexer = "not built"
    /\ beat = "not built"
    /\ pipeline = "not built"

\* One root_search call, for any request and any content of the splits.
RootSearchSpec == RootSearchInit /\ [][RootNext]_vars

AnalyzeErrorsInit ==
    /\ NoActor
    /\ queue = "not built"
    /\ index = "not built"
    /\ clk = "not built"
    /\ root = "not built"
    /\ \E search_result \in [Leaves -> NodeResults] :
         analysis = [search_result |-> search_result, pc |-> "called",
                     result |-> [some |-> FALSE, retry_split_ids |-> {}, nodes_to_use |-> {}]]
    /\ leaf = "not built"
    /\ cache = "not built"
    /\ indexer = "not built"
    /\ beat = "not built"
    /\ pipeline = "not built"

\* analyze_errors applied to any results of the nodes.
AnalyzeErrorsSpec == AnalyzeErrorsInit /\ [][AnalyzeErrors]_vars

\* leaf_search(query, collector, split_ids, storage) is called.
LeafSearchInit ==
    /\ NoActor
    /\ queue = "not built"
    /\ index = "not built"
    /\ clk = "not built"
    /\ root = "not built"
    /\ analysis = "not built"
    /\ leaf = [tasks |-> [split \in SplitIds |-> TaskInit],
               pc |-> "join_all",
               result |-> [ok |-> FALSE, num_hits |-> 0, failed_requests |-> {}]]
    /\ cache = "not built"
    /\ indexer = "not built"
    /\ beat = "not built"
    /\ pipeline = "not built"

\* One leaf_search call: the tasks of its splits run concurrently.
LeafSearchSpec == LeafSearchInit /\ [][LeafNext]_vars

\* CachingDirectory::new_with_capacity_in_bytes(underlying, capacity) or
\* new_with_unlimited_capacity(underlying).
CachingDirectoryInit ==
    /\ NoActor
    /\ queue = "not built"
    /\ index = "not built"
    /\ clk = "not built"
    /\ root = "not built"
    /\ analysis = "not built"
    /\ leaf = "not built"
    /\ \E capacity \in [unlimited : {FALSE}, bytes : 0..(MaxBytes + 1)]
                      \cup [unlimited : {TRUE}, bytes : {0}] :
         cache = [capacity |-> capacity,
                  slices |-> <<>>,
                  put_bytes |-> 0,
                  underlying_reads |-> 0,
                  reads |-> 0,
                  last_read |-> [path |-> 1, byte_range |-> <<0, 1>>, ok |-> FALSE,
                                 bytes |-> <<>>],
                  first_reads |-> {}]
    /\ indexer = "not built"
    /\ beat = "not built"
    /\ pipeline = "not built"

\* Sequential reads through one caching directory.
CachingDirectorySpec == CachingDirectoryInit /\ [][CacheNext]_vars

\* Indexer::new and its spawn as a sync actor.
IndexerInit ==
    /\ NoActor
    /\ queue = "not built"
    /\ index = "not built"
    /\ clk = "not built"
    /\ root = "not built"
    /\ analysis = "not built"
    /\ leaf = "not built"
    /\ cache = "not built"
    /\ indexer = [pc |-> "loop",
                  msg |-> [kind |-> "Timeout", docs |-> "Ok", checkpoint_update |-> NoPosition],
                  checkpoint |-> NoPosition,
                  alive |-> TRUE,
                  packager_inbox |-> <<>>,
                  termination |-> "Running",
                  processed |-> <<>>]
    /\ beat = "not built"
    /\ pipeline = "not built"

\* The indexer of a campaign, from its spawn to its termination.
IndexerSpec == IndexerInit /\ [][IndexerNext]_vars

\* ActorHandle::new spawned the watchdog, whose first tick returns at once;
\* Progress::default() is false.
HeartbeatInit ==
    /\ NoActor
    /\ queue = "not built"
    /\ index = "not built"
    /\ clk = "not built"
    /\ root = "not built"
    /\ analysis = "not built"
    /\ leaf = "not built"
    /\ cache = "not built"
    /\ indexer = "not built"
    /\ beat = [progress |-> FALSE, wd |-> "loop", alive |-> TRUE, killed_by |-> "none",
               ticks |-> 0, recorded |-> 0]
    /\ pipeline = "not built"

\* An actor that records progress, next to the watchdog of its handle.
HeartbeatSpec == HeartbeatInit /\ [][BeatNext]_vars

\* ================================================================= campaign
\* run_campaign: publisher, uploader, packager and indexer are spawned in
\* that order, each holding the mailbox of the next one; the source holds
\* the mailbox of the indexer.
Roles == {"indexer", "packager", "uploader", "publisher"}

\* message_queue_limit of publisher.spawn
PublisherLimit == 3

\* message_queue_limit of uploader.spawn
UploaderLimit == 1

\* message_queue_limit of packager.spawn
PackagerLimit == 1

\* message_queue_limit of writer.spawn
IndexerLimit == 100

\* The capacity flume::bounded gives the mailbox of a role.
Limit(r) ==
    CASE r = "publisher" -> PublisherLimit
      [] r = "uploader" -> UploaderLimit
      [] r = "packager" -> PackagerLimit
      [] r = "indexer" -> IndexerLimit

\* The mailbox a role holds.
Downstream(r) ==
    CASE r = "indexer" -> "packager"
      [] r = "packager" -> "uploader"
      [] r = "uploader" -> "publisher"

\* The only holder of the mailbox of a role has dropped it.
UpstreamDropped(r) ==
    CASE r = "indexer" -> pipeline.src = "done"
      [] r = "packager" -> pipeline.pc["indexer"] = "done"
      [] r = "uploader" -> pipeline.pc["packager"] = "done"
      [] r = "publisher" -> pipeline.pc["uploader"] = "done"

\* A bounded channel that takes a message whatever it holds (mutant).
has_room_always(n, limit) == TRUE

\* flume::bounded(limit): a send enqueues when fewer than limit messages
\* are queued, and waits otherwise.
has_room(n, limit) == n < limit

PipelineAlive == is_alive(pipeline.lowest_step_alive, pipeline.step_id)

\* The source (not in this repository's src/: from the pipeline description)
\* starts sending a batch to the indexer.
SourceSendBegin ==
    /\ pipeline.src = "running"
    /\ pipeline' = [pipeline EXCEPT !.src = "sending", !.src_result = "none"]
    /\ UNCHANGED outside_pipeline

\* The send of the source enqueues its batch.
SourceSendComplete ==
    /\ pipeline.src = "sending"
    /\ pipeline.pc["indexer"] # "done"
    /\ has_room(pipeline.box["indexer"], Limit("indexer"))
    /\ pipeline' = [pipeline EXCEPT !.box["indexer"] = @ + 1, !.src = "running",
                                    !.src_result = "Ok"]
    /\ UNCHANGED outside_pipeline

\* The indexer has terminated: the send of the source returns an error.
SourceSendError ==
    /\ pipeline.src = "sending"
    /\ pipeline.pc["indexer"] = "done"
    /\ pipeline' = [pipeline EXCEPT !.src = "done", !.src_result = "SendError"]
    /\ UNCHANGED outside_pipeline

\* The source is exhausted and drops the mailbox of the indexer.
SourceEnd ==
    /\ pipeline.src = "running"
    /\ pipeline' = [pipeline EXCEPT !.src = "done"]
    /\ UNCHANGED outside_pipeline

\* Top of the actor loop: the kill switch is looked at.
PipeTop(r) ==
    /\ pipeline.pc[r] = "top"
    /\ pipeline' = [pipeline EXCEPT !.pc[r] = IF PipelineAlive THEN "recv" ELSE "done"]
    /\ UNCHANGED outside_pipeline

\* inbox.recv_timeout returns a message.
PipeRecv(r) ==
    /\ pipeline.pc[r] = "recv"
    /\ pipeline.box[r] > 0
    /\ pipeline' = [pipeline EXCEPT !.box[r] = @ - 1, !.pc[r] = "check"]
    /\ UNCHANGED outside_pipeline

\* inbox.recv_timeout times out.
PipeRecvTimeout(r) ==
    /\ pipeline.pc[r] = "recv"
    /\ pipeline.box[r] = 0
    /\ ~UpstreamDropped(r)
    /\ pipeline' = [pipeline EXCEPT !.pc[r] = "top"]
    /\ UNCHANGED outside_pipeline

\* inbox.recv_timeout returns Disconnected: finalize() runs. That of the
\* indexer sends its split to the packager.
PipeDisconnected(r) ==
    /\ pipeline.pc[r] = "recv"
    /\ pipeline.box[r] = 0
    /\ UpstreamDropped(r)
    /\ pipeline' = IF r = "indexer"
                   THEN [pipeline EXCEPT !.pc[r] = "sending", !.result[r] = "none"]
                   ELSE [pipeline EXCEPT !.pc[r] = "done"]
    /\ UNCHANGED outside_pipeline

\* The kill switch is looked at again before the message is processed.
PipeCheck(r) ==
    /\ pipeline.pc[r] = "check"
    /\ pipeline' = [pipeline EXCEPT !.pc[r] = IF PipelineAlive THEN "process" ELSE "done"]
    /\ UNCHANGED outside_pipeline

\* process_message: the indexer adds the batch to its split; the packager
\* and the uploader (the latter from the pipeline description) send their
\* product downstream; the publisher panics on todo!().
PipeProcess(r) ==
    /\ pipeline.pc[r] = "process"
    /\ pipeline' = CASE r = "indexer" -> [pipeline EXCEPT !.pc[r] = "top"]
                     [] r = "publisher" -> [pipeline EXCEPT !.pc[r] = "done"]
                     [] OTHER -> [pipeline EXCEPT !.pc[r] = "sending", !.result[r] = "none"]
    /\ UNCHANGED outside_pipeline

\* process_message returns MessageProcessError::Error: the loop trips the
\* kill switch and returns.
PipeProcessError(r) ==
    /\ r \in {"indexer", "uploader"}
    /\ pipeline.pc[r] = "process"
    /\ pipeline' = [pipeline EXCEPT
                       !.pc[r] = "done",
                       !.lowest_step_alive = kill(pipeline.lowest_step_alive, pipeline.step_id)]
    /\ UNCHANGED outside_pipeline

\* send_blocking / send_async enqueues the message of the role downstream.
PipeSendComplete(r) ==
    /\ r # "publisher"
    /\ pipeline.pc[r] = "sending"
    /\ pipeline.pc[Downstream(r)] # "done"
    /\ has_room(pipeline.box[Downstream(r)], Limit(Downstream(r)))
    /\ pipeline' = [pipeline EXCEPT !.box[Downstream(r)] = @ + 1,
                                    !.result[r] = "Ok",
                                    !.pc[r] = IF r = "indexer" THEN "done" ELSE "top"]
    /\ UNCHANGED outside_pipeline

\* The actor downstream has terminated: the send returns an error.
\* process_message returns DownstreamClosed and the loop trips the kill
\* switch; an error of finalize() ends the loop without kill().
PipeSendError(r) ==
    /\ r # "publisher"
    /\ pipeline.pc[r] = "sending"
    /\ pipeline.pc[Downstream(r)] = "done"
    /\ pipeline' = [pipeline EXCEPT
                       !.result[r] = "SendError",
                       !.pc[r] = "done",
                       !.lowest_step_alive =
                           IF r = "indexer" THEN @
                           ELSE kill(pipeline.lowest_step_alive, pipeline.step_id)]
    /\ UNCHANGED outside_pipeline

\* The watchdog of a handle saw no progress of its actor (one blocked in a
\* send or in process_message, or one that returned, records none) and
\* trips the kill switch.
PipeWatchdogKill ==
    /\ PipelineAlive
    /\ \E r \in Roles : pipeline.pc[r] \in {"process", "sending", "done"}
    /\ pipeline' = [pipeline EXCEPT
                       !.lowest_step_alive = kill(pipeline.lowest_step_alive, pipeline.step_id)]
    /\ UNCHANGED outside_pipeline

PipelineNext ==
    \/ SourceSendBegin
    \/ SourceSendComplete
    \/ SourceSendError
    \/ SourceEnd
    \/ \E r \in Roles : PipeTop(r)
    \/ \E r \in Roles : PipeRecv(r)
    \/ \E r \in Roles : PipeRecvTimeout(r)
    \/ \E r \in Roles : PipeDisconnected(r)
    \/ \E r \in Roles : PipeCheck(r)
    \/ \E r \in Roles : PipeProcess(r)
    \/ \E r \in Roles : PipeProcessError(r)
    \/ \E r \in Roles : PipeSendComplete(r)
    \/ \E r \in Roles : PipeSendError(r)
    \/ PipeWatchdogKill

\* The state run_campaign returns in: four actors at the top of their loops,
\* empty mailboxes, the source spawned. run_campaign clones
\* KillSwitch::default() into every spawn; spawn takes any kill switch, and
\* the handle of the next step is covered as well.
PipelineInit ==
    /\ NoActor
    /\ queue = "not built"
    /\ index = "not built"
    /\ clk = "not built"
    /\ root = "not built"
    /\ analysis = "not built"
    /\ leaf = "not built"
    /\ cache = "not built"
    /\ indexer = "not built"
    /\ beat = "not built"
    /\ \E ks \in KillSwitchHandles(1) :
          pipeline = [box |-> [r \in Roles |-> 0],
                      pc |-> [r \in Roles |-> "top"],
                      result |-> [r \in Roles |-> "none"],
                      src |-> "running",
                      src_result |-> "none",
                      lowest_step_alive |-> 0,
                      step_id |-> ks.step_id]

\* One campaign under any interleaving of its source and its actors.
PipelineSpec == PipelineInit /\ [][PipelineNext]_vars

\* =================================================================== claims
\* The ids 1..n, the order the sends completed in.
Ids(n) == [i \in 1..n |-> i]

\* The five causes an actor loop returns.
ActorTerminations == {"OnDemand", "ActorError", "KillSwitch", "Disconnect",
                      "DownstreamClosed"}

\* This step is the return of the observe() call in flight.
ObserveReturns == obs.pc = "waiting" /\ obs'.pc = "returned"

\* C1: when observe() returns Running(s), every user message whose send
\* completed before the call has been processed (in the order of the sends,
\* and its process_message has returned), and s counts at least those
\* messages and no message that was not processed.
C1_ObserveRunningIsBarrier ==
    [][(ObserveReturns /\ obs'.kind = "Running") =>
          /\ Len(processed) >= obs.sent_before
          /\ SubSeq(processed, 1, obs.sent_before) = Ids(obs.sent_before)
          /\ (pc \in {"processing", "blocked"} => cur.id > obs.sent_before)
          /\ obs'.state >= obs.sent_before
          /\ obs'.state <= Len(processed)]_vars

\* C1 witness: observe() returned Running(2) after two sends.
C1_Witness ==
    obs.pc = "returned" /\ obs.kind = "Running" /\ obs.state = 2 /\ sent = 2

\* C2 (as claimed): an actor spawned with KillSwitch::default() does not
\* terminate as KillSwitch as long as kill() was never called on the group.
C2_DefaultSwitchIsAlive ==
    (step_id = KillSwitchDefault.step_id /\ hist_max_kill = -1)
        => termination # "KillSwitch"

\* C3: once kill() has been called on a handle of step id k, is_alive() is
\* false for every handle of step id lower than or equal to k.
C3_KillCoversLowerSteps ==
    \A k \in 0..MaxStep :
        hist_max_kill >= k => \A j \in 0..k : ~is_alive(lowest_step_alive, j)

\* C3 witness: kill() was called on a handle of step 1, and no higher one.
C3_Witness == hist_max_kill = 1 /\ ~is_alive(lowest_step_alive, 1)

\* C4: the shared counter never decreases, and a handle that is not alive
\* never becomes alive again, whatever the order of the kill() calls.
C4_CounterNeverDecreases ==
    [][/\ lowest_step_alive' >= lowest_step_alive
       /\ \A j \in 0..MaxStep :
             ~is_alive(lowest_step_alive, j) => ~is_alive(lowest_step_alive', j)]_vars

\* C4 witness: a kill() came from a lower step after one from a higher step,
\* and the counter is still the one the higher step set.
C4_Witness == late_kill /\ lowest_step_alive = hist_max_kill + 1

\* C5 (as claimed): an actor terminated as ActorError or DownstreamClosed has
\* called kill() on its switch (the counter is above its step id).
C5_ErrorTripsKillSwitch ==
    termination \in {"ActorError", "DownstreamClosed"}
        => lowest_step_alive >= step_id + 1

C7_FinalStatePublished ==
    (pc = "done" /\ termination \in ActorTerminations)
        => last_state = observable_state

\* C8: the actor terminates as Disconnect only once every sender is gone and
\* every message sent has been processed, in the order of the sends; a sync
\* actor has then called finalize() exactly once (an async actor never), and
\* finalize() is called only after the last message, right before the loop
\* returns.
C8_DrainThenDisconnect ==
    /\ termination = "Disconnect" =>
          /\ ~connected
          /\ UserMessages(inbox) = <<>>
          /\ processed = Ids(sent)
          /\ finalized = (IF flavour = "sync" THEN 1 ELSE 0)
    /\ finalized <= 1
    /\ finalized = 1 =>
          /\ flavour = "sync"
          /\ processed = Ids(sent)
          /\ termination \in {"Disconnect", "ActorError"}

\* C8 witness: a sync actor whose senders were dropped with two messages
\* queued has terminated as Disconnect.
C8_Witness ==
    /\ flavour = "sync" /\ termination = "Disconnect" /\ pc = "done"
    /\ queued_at_drop = 2 /\ Len(processed) = 2 /\ finalized = 1

\* C9 (as claimed): with the actor blocked in process_message, an observe()
\* issued while the kill switch was alive, whose marker the actor has not
\* served, returns Timeout and does not abort, and an observe() issued after
\* the trip returns Terminated.
C9_IssuedAliveReturnsTimeout ==
    [][/\ (ObserveReturns /\ pc = "blocked" /\ obs.reply = "none" /\ obs.alive_at_call)
          => (obs'.kind = "Timeout" /\ aborted' = aborted)
       /\ (ObserveReturns /\ ~obs.alive_at_call) => obs'.kind = "Terminated"]_vars

\* C9 (amended): with the actor blocked in process_message, an observe() whose
\* marker is not served and whose wait ends while the kill switch is alive
\* returns Timeout and does not abort, one whose wait ends after the trip
\* aborts and returns Terminated; an observe()
\* issued after the trip returns Terminated; and the watchdog eventually
\* trips the kill switch.
C9_TimeoutWhileAliveThenTerminated ==
    /\ [][/\ (ObserveReturns /\ pc = "blocked" /\ obs.reply = "none") =>
                IF IsAlive
                THEN obs'.kind = "Timeout" /\ aborted' = aborted
                ELSE obs'.kind = "Terminated"
          /\ (ObserveReturns /\ ~obs.alive_at_call) => obs'.kind = "Terminated"]_vars
    /\ (pc = "blocked" ~> ~IsAlive)

\* C9 witness: observe() returned Timeout on a blocked actor, nothing aborted.
C9_Witness ==
    pc = "blocked" /\ obs.pc = "returned" /\ obs.kind = "Timeout" /\ ~aborted

\* C10 (as claimed, for an actor that is inside process_message): an observe()
\* issued once kill() has covered the actor returns Terminated, and once an
\* observe() has returned Terminated no later send on the mailbox succeeds.
C10_TerminatedThenSendFails ==
    [][/\ (ObserveReturns /\ ~obs.alive_at_call /\ hist_max_kill >= 0)
          => obs'.kind = "Terminated"
       /\ (obs.pc = "returned" /\ obs.kind = "Terminated" /\ hist_max_kill >= 0
             /\ pc \in {"processing", "blocked"})
          => sent' = sent]_vars

\* The pending items: what the channel holds, and before it the item recv
\* has taken out of the channel and not yet removed from the set.
Pending ==
    (IF queue.receiver.pc = "holding" THEN <<queue.receiver.item>> ELSE <<>>) \o queue.channel

\* The number of entries of q equal to x.
Count(q, x) == Cardinality({i \in 1..Len(q) : q[i] = x})

\* C11: the unique queue never holds two equal items, whatever the
\* interleaving of the sends of the Sender clones with recv; a send(x) issued
\* while x is pending returns Ok and adds no entry.
C11_NoTwoEqualItemsPending ==
    /\ [](\A x \in Items : Count(Pending, x) <= 1)
    /\ [][\A x \in queue.items_in_queue :
            /\ Count(queue'.channel, x) <= Count(queue.channel, x)
            /\ queue'.accepted # queue.accepted => queue'.accepted[Len(queue'.accepted)] # x
            /\ (queue'.last_send # queue.last_send /\ queue'.last_send.item = x)
                 => (queue'.last_send.res = "Ok" /\ queue'.last_send.collapsed)]_vars

\* C11 witness: with two Sender clones, send(1) collapsed while 1 was
\* pending behind nothing and 2 behind it.
C11_Witness ==
    /\ queue.num_senders = 2
    /\ queue.channel = <<1, 2>>
    /\ queue.delivered = <<>>
    /\ queue.last_send = [item |-> 1, res |-> "Ok", collapsed |-> TRUE]

\* C12: recv returns the items in the order of the sends that were
\* enqueued; a send of an item that is no longer pending is enqueued again,
\* behind every item pending at that time.
C12_RecvInAcceptedOrder ==
    /\ [](/\ Len(queue.delivered) <= Len(queue.accepted)
          /\ queue.delivered = SubSeq(queue.accepted, 1, Len(queue.delivered))
          /\ queue.receiver.pc \in {"idle", "holding"}
               => queue.accepted = queue.delivered \o Pending)
    /\ [][queue'.accepted # queue.accepted =>
            /\ queue'.last_send.item \notin queue.items_in_queue
            /\ queue'.accepted = Append(queue.accepted, queue'.last_send.item)
            /\ queue'.channel = Append(queue.channel, queue'.last_send.item)]_vars

\* C12 witness: send 1, 2, 1, 3; recv, recv give 1, 2; send 1 again; recv,
\* recv give 3, 1 (test_unbounce_interleaved).
C12_Witness ==
    /\ queue.delivered = <<1, 2, 3, 1>>
    /\ queue.accepted = queue.delivered
    /\ queue.receiver.pc = "idle"

\* C13: in every reachable state of campaigns interleaved with
\* garbage_collect_index and delete_index, each split with a file in storage
\* has a metastore row, in state Staged, Published or ScheduledForDeletion.
C13_StoredSplitHasARow ==
    \A id \in SplitIds : index.storage[id] > 0 => (index.row /\ index.splits[id] \in SplitStates)

\* This step is the removal of the index row by delete_index.
IndexRowRemoved == index.row /\ ~index'.row

\* C14: when delete_index(dry_run = false) returns Ok the index row is gone,
\* and at the moment the row was removed no split of the index was Published
\* or had a file left in storage.
C14_IndexRowRemovedLast ==
    /\ []((index.op.name = "delete_index" /\ ~index.op.dry_run /\ index.op.pc = "returned"
             /\ index.op.result = "Ok") => ~index.row)
    /\ [][IndexRowRemoved =>
            \A id \in SplitIds : index.splits[id] # "Published" /\ index.storage[id] = 0]_vars

\* This step is a step of a dry run of delete_index or garbage_collect_index.
DryRunStep == index'.op # index.op /\ index'.op.dry_run

\* C15: delete_index and garbage_collect_index with dry_run = true leave the
\* index row, every split row and the storage unchanged; what they return is
\* the files of the splits they listed.
C15_DryRunChangesNothing ==
    /\ [][DryRunStep => UNCHANGED <<index.row, index.splits, index.storage>>]_vars
    /\ [][(DryRunStep /\ index'.op.result = "Ok") =>
            index'.op.files = {id \in index.op.listed : index.storage[id] > 0}]_vars

\* C15 witness: a dry run of delete_index returned the files of a Published
\* split, which is still Published with its files.
C15_Witness ==
    /\ index.op.name = "delete_index"
    /\ index.op.dry_run
    /\ index.op.pc = "returned"
    /\ index.op.result = "Ok"
    /\ index.op.files = {1}
    /\ index.splits[1] = "Published"
    /\ index.storage[1] = MaxFiles

\* C16: publish_splits succeeds only if every listed split is Staged or
\* Published; it makes the Staged ones Published and leaves the others as
\* they are; a second call gives the same rows; a split that is
\* ScheduledForDeletion or absent is never made Published.
C16_PublishIsIdempotent ==
    index.last_call.name = "publish_splits" =>
        /\ index.last_call.ok =>
             /\ \A id \in index.last_call.ids :
                  index.last_call.before[id] \in {"Staged", "Published"}
             /\ \A id \in SplitIds :
                  index.splits[id] = IF id \in index.last_call.ids THEN "Published"
                               ELSE index.last_call.before[id]
             /\ publish_splits(index.row, index.splits, index.last_call.ids)
                  = Return(TRUE, index.splits)
        /\ ~index.last_call.ok => index.splits = index.last_call.before
        /\ \A id \in SplitIds :
             index.last_call.before[id] \in {"ScheduledForDeletion", "Absent"}
                => index.splits[id] = index.last_call.before[id]

\* C16 witness: one call published a Staged split next to a Published one.
C16_Witness ==
    /\ index.last_call.name = "publish_splits"
    /\ index.last_call.ok
    /\ index.last_call.ids = {1, 2}
    /\ index.last_call.before[1] = "Staged"
    /\ index.last_call.before[2] = "Published"
    /\ index.splits[1] = "Published"

\* C17: delete_splits removes a row only if the split is Staged or
\* ScheduledForDeletion; with a Published or absent split in the list it
\* returns an error and leaves every row unchanged.
C17_DeleteIsAllOrNothing ==
    index.last_call.name = "delete_splits" =>
        /\ \A id \in SplitIds :
             index.splits[id] # index.last_call.before[id]
                => /\ id \in index.last_call.ids
                   /\ index.last_call.before[id] \in {"Staged", "ScheduledForDeletion"}
                   /\ index.splits[id] = "Absent"
        /\ (\E id \in index.last_call.ids : index.last_call.before[id] \in {"Published", "Absent"})
             => (~index.last_call.ok /\ index.splits = index.last_call.before)
        /\ index.last_call.ok => \A id \in index.last_call.ids : index.splits[id] = "Absent"

\* C17 witness: delete_splits of a Staged and a Published split returned an
\* error and the Staged one is still there.
C17_Witness ==
    /\ index.last_call.name = "delete_splits"
    /\ ~index.last_call.ok
    /\ index.last_call.ids = {1, 2}
    /\ index.last_call.before[1] = "Staged"
    /\ index.last_call.before[2] = "Published"
    /\ index.splits[1] = "Staged"

\* The transition table of the clock.
TransitionTable(state, command) ==
    CASE state = "Terminated" -> "Terminated"
      [] state # "Terminated" /\ command = "Terminate" -> "Terminated"
      [] state # "Terminated" /\ command = "Pause" -> "Idle"
      [] state # "Terminated" /\ command = "Run" -> "Running"

\* C18: every command takes the clock state where the table says: from Idle
\* or Running, Terminate to Terminated, Pause to Idle, Run to Running; once
\* the state is Terminated no command and no step of the ticker changes it.
C18_StateFollowsTable ==
    [][/\ clk'.last_command # clk.last_command
            => clk'.state = TransitionTable(clk.state, clk'.last_command.command)
       /\ clk.state = "Terminated" => clk'.state = "Terminated"]_vars

\* C18 witness: run() found the clock Terminated by the ticker (after a
\* failed send) and left it Terminated.
C18_Witness ==
    /\ clk.last_command = [command |-> "Run", found |-> "Terminated"]
    /\ clk.state = "Terminated"
    /\ clk.ticker.pc = "done"
    /\ ~clk.tick_receiver

\* This step puts a Tick into the mailbox.
TickSent == clk'.tick_inbox = clk.tick_inbox + 1

\* C19: no Tick is sent to the mailbox while the clock is Idle, neither
\* before the first run() nor between the return of pause() and the next
\* run().
C19_NoTickWhileIdle ==
    [][TickSent => clk.state # "Idle"]_vars

\* C20: after the drop of the ClockController no Tick is sent in a period
\* that begins after the drop, such a period ends the ticker task, and the
\* task does end.
C20_DropStopsTicker ==
    /\ [][TickSent => ~clk.after_drop]_vars
    /\ [](clk.after_drop => clk.ticker.pc \in {"upgrade", "done"})
    /\ ~clk.controller ~> clk.ticker.pc = "done"

\* C20 witness: the controller was dropped while the clock was Running with
\* a Tick in the mailbox, and the ticker ended in the period after the drop.
C20_Witness ==
    /\ ~clk.controller
    /\ clk.state = "Running"
    /\ clk.after_drop
    /\ clk.ticker.pc = "done"
    /\ clk.tick_inbox > 0

\* The ticker task returned after a send that failed: only that path ends
\* the task with Running as its snapshot.
SendFailed == clk.ticker = [pc |-> "done", snapshot |-> "Running"]

\* C21: a send of a Tick that finds the receiver of the mailbox gone puts no
\* Tick and leads to the write of Terminated, after which the ticker task
\* has returned; from then on the state is Terminated whatever run() or
\* pause() is called, and the task neither moves nor sends.
C21_FailedSendTerminates ==
    /\ [][(clk.ticker.pc = "send" /\ ~clk.tick_receiver /\ clk'.ticker # clk.ticker)
            => (clk'.ticker.pc = "write" /\ ~TickSent)]_vars
    /\ clk.ticker.pc = "write" ~> SendFailed
    /\ [](SendFailed => clk.state = "Terminated")
    /\ [][SendFailed => (clk'.state = "Terminated" /\ clk'.ticker = clk.ticker /\ ~TickSent)]_vars

\* C21 witness: the send failed, the ticker wrote Terminated and returned,
\* and a pause() called afterwards found Terminated and left it.
C21_Witness ==
    /\ SendFailed
    /\ clk.controller
    /\ clk.last_command = [command |-> "Pause", found |-> "Terminated"]
    /\ clk.state = "Terminated"

\* C22: when root_search has returned and at least one leaf node answered,
\* the result is Ok and its hits come from nodes that answered; the result
\* is an error only when no node answered.
C22_PartialFailureIsOk ==
    root.pc = "returned" =>
        /\ (\E n \in Leaves : root.responses[n].ok) =>
             /\ root.result.ok
             /\ \A i \in 1..Len(root.result.hits) :
                  root.responses[root.result.hits[i].split].ok
        /\ ~root.result.ok => \A n \in Leaves : ~root.responses[n].ok

\* The window of the request over the ranking of the hits the leaves returned.
RankingWindow ==
    Window(Ranking(HitsOf({root.responses[n] : n \in Leaves})),
           root.request.start_offset, root.request.max_hits)

\* The entries of a sequence, as a set.
Range(seq) == {seq[i] : i \in 1..Len(seq)}

\* What C23 says of the hits of an Ok result whatever the fetches did: they
\* are in descending order of sorting value, without repetition, at most
\* max_hits of them, and num_hits is the sum of the num_hits of the leaves.
SortedAndCounted(hits) ==
    /\ \A i \in 1..Len(hits) - 1 : hits[i].value >= hits[i + 1].value
    /\ Cardinality(Range(hits)) = Len(hits)
    /\ Len(hits) = AtMost(root.request.max_hits, Len(hits))
    /\ root.request.max_hits = u32(0) => hits = <<>>
    /\ root.result.num_hits = Sum([n \in Leaves |-> root.responses[n].num_hits])

C24_LeafRequestIsTheSum ==
    /\ root.pc # "panicked"
    /\ root.pc # "build_request" =>
         root.leaf_request = [start_offset |-> u32(0),
                              max_hits |-> Plus(root.request.max_hits,
                                                root.request.start_offset)]

\* A node is complete-failure: it errored, or it answered with as many
\* failed requests as attempted splits.
CompleteFailure(n) ==
    \/ ~analysis.search_result[n].ok
    \/ Cardinality(analysis.search_result[n].failed_requests)
         = analysis.search_result[n].num_attempted_splits

\* C26: when some node errored or reports a failed request, analyze_errors
\* returns an ErrorRetries whose nodes_to_use is the set of the nodes that
\* are not complete-failure when there is one, the set of the
\* complete-failure nodes otherwise; what it gives to retry is the union of
\* the split ids of the failed_requests of the nodes that answered (None
\* gives nothing to retry).
C26_ErrorRetries ==
    analysis.pc = "returned" =>
        /\ (\E n \in Leaves : \/ ~analysis.search_result[n].ok
                              \/ analysis.search_result[n].failed_requests # {})
             => analysis.result.some
        /\ analysis.result.some =>
             analysis.result.nodes_to_use =
               IF \E n \in Leaves : ~CompleteFailure(n)
               THEN {n \in Leaves : ~CompleteFailure(n)}
               ELSE {n \in Leaves : CompleteFailure(n)}
        /\ analysis.result.retry_split_ids =
             {id \in Leaves \X SplitIds :
                /\ analysis.search_result[id[1]].ok
                /\ id[2] \in analysis.search_result[id[1]].failed_requests}

\* C25: when leaf_search has returned, it returned Ok, num_hits is the sum
\* over the splits whose search succeeded, and failed_requests has exactly
\* one entry, split id and error, for each split whose search failed.
C25_FailedSplitsAreRecorded ==
    leaf.pc = "returned" =>
        /\ leaf.result.ok
        /\ leaf.result.num_hits =
             Sum([split \in SplitIds |->
                    IF leaf.tasks[split].res = "Ok" THEN leaf.tasks[split].num_hits ELSE 0])
        /\ leaf.result.failed_requests =
             {[split_id |-> split, error |-> leaf.tasks[split].res] :
                split \in {s \in SplitIds : leaf.tasks[s].res # "Ok"}}

\* C27: the collector of a split has run only if the terms warm-up and the
\* fast field warm-up of the split both completed with Ok; a task whose
\* warm-up failed has returned that error without running the collector,
\* and a task that has returned does nothing more.
C27_WarmUpBeforeSearch ==
    /\ [](\A split \in SplitIds :
            /\ leaf.tasks[split].searched =>
                 (leaf.tasks[split].terms /\ leaf.tasks[split].fastfields)
            /\ leaf.tasks[split].pc = "search" =>
                 (leaf.tasks[split].terms /\ leaf.tasks[split].fastfields)
            /\ leaf.tasks[split].res \in WarmUpErrors =>
                 (leaf.tasks[split].pc = "done" /\ ~leaf.tasks[split].searched))
    /\ [][\A split \in SplitIds :
            leaf.tasks[split].pc = "done" => leaf'.tasks[split] = leaf.tasks[split]]_vars

\* C27 witness: the task of split 1 ran the collector after both warm-ups,
\* the task of split 2 returned the error of a field that is not fast and
\* never ran it.
C27_Witness ==
    /\ leaf.tasks[1] = [pc |-> "done", res |-> "Ok", terms |-> TRUE, fastfields |-> TRUE,
                        searched |-> TRUE, num_hits |-> 1]
    /\ leaf.tasks[2] = [pc |-> "done", res |-> "is_fast", terms |-> TRUE,
                        fastfields |-> FALSE, searched |-> FALSE, num_hits |-> 0]

\* The cache was never given more bytes than its capacity.
BudgetNotExceeded == cache.capacity.unlimited \/ cache.put_bytes <= cache.capacity.bytes

\* The read of this step is of a (path, byte_range) that was read before
\* and gave bytes.
SecondRead ==
    /\ cache'.reads = cache.reads + 1
    /\ \E read \in cache.first_reads :
          read.path = cache'.last_read.path /\ read.byte_range = cache'.last_read.byte_range

\* C28: while the byte budget is not exceeded, a read of a (path,
\* byte_range) that was read before is served without a read of the
\* underlying directory and returns the bytes the first read returned.
C28_SecondReadFromCache ==
    [][(SecondRead /\ BudgetNotExceeded) =>
          /\ cache'.underlying_reads = cache.underlying_reads
          /\ cache'.last_read.ok
          /\ \E read \in cache.first_reads :
                /\ read.path = cache'.last_read.path
                /\ read.byte_range = cache'.last_read.byte_range
                /\ read.bytes = cache'.last_read.bytes]_vars

\* C28 witness: with a budget of two bytes, a range of two bytes was read
\* twice and the underlying directory read once.
C28_Witness ==
    /\ cache.capacity = [unlimited |-> FALSE, bytes |-> 2]
    /\ cache.reads = 2
    /\ cache.underlying_reads = 1
    /\ cache.put_bytes = 2
    /\ cache.last_read = [path |-> 1, byte_range |-> <<0, 2>>, ok |-> TRUE,
                          bytes |-> underlying_read_bytes(1, <<0, 2>>)]
    /\ cache.first_reads = {[path |-> 1, byte_range |-> <<0, 2>>,
                             bytes |-> underlying_read_bytes(1, <<0, 2>>)]}

\* C29: the position the indexer's checkpoint holds for a partition never
\* moves backwards: an update with a lower position does not replace it.
C29_PositionNeverMovesBackwards ==
    [][\A partition \in DOMAIN indexer.checkpoint :
          /\ partition \in DOMAIN indexer'.checkpoint
          /\ indexer'.checkpoint[partition] >= indexer.checkpoint[partition]]_vars

\* The checkpoint_updates merged in order.
RECURSIVE MergedInOrder(_)
MergedInOrder(updates) ==
    IF updates = <<>> THEN NoPosition
    ELSE [partition \in UNION {DOMAIN updates[i] : i \in 1..Len(updates)} |->
            LET last == CHOOSE i \in 1..Len(updates) :
                           /\ partition \in DOMAIN updates[i]
                           /\ \A j \in (i + 1)..Len(updates) : partition \notin DOMAIN updates[j]
            IN  updates[last][partition]]

\* C30: the packager gets an IndexedSplit exactly once when the indexer
\* terminates on Disconnect, none when it terminates otherwise, and the
\* IndexedSplit carries the checkpoint merged from the batches processed.
C30_IndexedSplitCarriesCheckpoint ==
    /\ Len(indexer.packager_inbox) <= 1
    /\ indexer.termination \in {"KillSwitch", "ActorError"} => indexer.packager_inbox = <<>>
    /\ indexer.termination = "Disconnect" =>
         /\ Len(indexer.packager_inbox) = 1
         /\ "checkpoint" \in DOMAIN indexer.packager_inbox[1]
         /\ indexer.packager_inbox[1].checkpoint = MergedInOrder(indexer.processed)

\* C40: a kill() on a handle of step id k leaves alive every handle of step
\* id k + 1 (obtained from it by add_step) that was alive before the call.
C40_KillSparesHigherStep ==
    [][\A ks \in KillSwitchHandles(MaxStep) :
          (/\ lowest_step_alive' # lowest_step_alive
           /\ lowest_step_alive' = kill(lowest_step_alive, ks.step_id)
           /\ is_alive(lowest_step_alive, add_step(ks).step_id))
          => is_alive(lowest_step_alive', add_step(ks).step_id)]_vars

\* Some node errored, or answered with a failed request.
SomeNodeFailure ==
    \E n \in Leaves : \/ ~analysis.search_result[n].ok
                      \/ analysis.search_result[n].failed_requests # {}

\* C39: analyze_errors returns None exactly when every node answered Ok
\* with no failed request; otherwise what it returns to retry contains the
\* failed split ids the nodes reported.
C39_NoneIffNoFailure ==
    analysis.pc = "returned" =>
        /\ ~analysis.result.some <=> ~SomeNodeFailure
        /\ SomeNodeFailure =>
             \A n \in Leaves : \A id \in analysis.search_result[n].failed_requests :
                <<n, id>> \in analysis.result.retry_split_ids

\* C37: while the Receiver exists, a send(x) that returns Ok without
\* enqueueing x finds x in the channel, from where a later recv returns it.
C37_CollapsedSendIsInChannel ==
    [][(/\ queue'.last_send # queue.last_send
        /\ queue'.last_send.collapsed
        /\ queue.receiver.pc \in {"idle", "holding"})
          => Count(queue.channel, queue'.last_send.item) = 1]_vars

\* C38: the assertion of recv never fails, and every item of the channel,
\* and the item recv holds, is in items_in_queue.
C38_AssertionNeverFails ==
    /\ queue.receiver.pc # "panicked"
    /\ \A i \in 1..Len(Pending) : Pending[i] \in queue.items_in_queue

\* C38 witness: with two Sender clones, recv has removed item 1 from the set
\* after a send(1) collapsed, and item 2 waits in the channel.
C38_Witness ==
    /\ queue.num_senders = 2
    /\ queue.delivered = <<1>>
    /\ queue.receiver = ReceiverIdle
    /\ queue.channel = <<2>>
    /\ queue.items_in_queue = {2}
    /\ queue.last_send = [item |-> 1, res |-> "Ok", collapsed |-> TRUE]

\* C35: no step of garbage_collect_index changes the state of a split that
\* is Published, or removes a file of it, also when the campaign publishes
\* the split after garbage_collect_index listed the Staged splits.
C35_GarbageCollectSparesPublished ==
    [][(index.op.name = "garbage_collect_index" /\ index'.op # index.op) =>
          \A id \in SplitIds :
             index.splits[id] = "Published" =>
                /\ index'.splits[id] = "Published"
                /\ index'.storage[id] = index.storage[id]]_vars

\* C36: when delete_garbage_files returns an error, the rows of the splits
\* it listed are as they were, ScheduledForDeletion; and the row of a split
\* is deleted by it only once the files of every listed split were removed.
C36_RowsKeptOnRemovalError ==
    [][/\ (index.op.pc = "garbage_remove" /\ index'.op.pc = "returned"
             /\ index'.op.result = "Err")
          => /\ index'.splits = index.splits
             /\ \A id \in index.op.listed : index'.splits[id] = "ScheduledForDeletion"
       /\ \A id \in SplitIds :
             (index.row /\ index'.row
                /\ index.splits[id] # "Absent" /\ index'.splits[id] = "Absent")
             => /\ index.op.pc = "garbage_remove"
                /\ id \in index.op.listed
                /\ index.op.removed = index.op.listed]_vars

\* C36 witness: garbage_collect_index listed two splits, removed the files
\* of one, failed on the other and returned the error; both rows are there.
C36_Witness ==
    /\ index.op.name = "garbage_collect_index"
    /\ index.op.pc = "returned"
    /\ index.op.result = "Err"
    /\ Cardinality(index.op.listed) = 2
    /\ Cardinality(index.op.removed) = 1
    /\ \A id \in index.op.listed : index.splits[id] = "ScheduledForDeletion"

\* kill() has been called on a handle that covers the actor: one of its step
\* id or of a higher one.
Tripped == hist_max_kill >= step_id

\* C34 (as claimed): once the kill switch covering the actor is tripped, no
\* further message is handed to process_message, and the loop returns
\* KillSwitch and nothing else.
C34_TrippedThenKillSwitch ==
    [][Tripped =>
          /\ processed' = processed
          /\ (termination = "none" /\ termination' # "none")
               => termination' = "KillSwitch"]_vars

\* C34 (amended): once the kill switch covering the actor is tripped, no
\* further message is handed to process_message; a loop iteration that
\* reaches a kill check returns KillSwitch; the loop returns another cause
\* only from the process_message or the finalize that was under way, or by
\* the abort of an observe().
C34_TrippedThenNoFurtherMessage ==
    [][Tripped =>
          /\ processed' = processed
          /\ (pc \in {"top", "check"} /\ pc' # pc) => termination' = "KillSwitch"
          /\ (termination = "none" /\ termination' \notin {"none", "KillSwitch"})
               => \/ termination' = "Cancelled"
                  \/ pc = "finalize" /\ termination' \in {"Disconnect", "ActorError"}
                  \/ /\ pc = "processing"
                     /\ cur.res \in {"OnDemand", "Error", "DownstreamClosed"}
                     /\ termination' = TerminationOf(cur.res)]_vars

\* C34 witness: the actor processed one message, the switch was tripped, the
\* loop returned KillSwitch and the second message is still in the mailbox.
C34_Witness ==
    /\ Tripped
    /\ termination = "KillSwitch"
    /\ processed = <<1>>
    /\ UserMessages(inbox) = <<UserMessage(2)>>

\* C32: the watchdog does not kill at a has_changed() check before which,
\* and after the previous check, the actor called record_progress.
C32_ProgressEachTickNeverKilled ==
    [][(beat.wd = "tick" /\ beat'.ticks = beat.ticks + 1 /\ beat.recorded >= 1)
          => beat'.killed_by # "watchdog"]_vars

\* C33: every observe() call eventually returns, whatever the actor is
\* doing.
C33_ObserveEventuallyReturns == (obs.pc = "sending") ~> (obs.pc = "returned")

====
